---- MODULE Spec2Model ----
(***************************************************************************)
(* A model of spektacular's process supervisor (runner.py: run_claude and  *)
(* the event model) and of the two conversation loops built on it          *)
(* (plan.py: run_plan, tui.py: PlanTUI).                                    *)
(*                                                                         *)
(* Text is modelled as a sequence of tokens.  The tokens "ws" and "nl" are *)
(* a blank and a newline; every other token stands for a fixed run of      *)
(* non-blank characters, listed in JsonTexts below.                        *)
(***************************************************************************)
EXTENDS Integers, Sequences, FiniteSets, TLC

\* ------------------------------------------------------------------ bounds
\* Number of write() calls the subordinate process makes in one run.
MaxWrites == 3
\* Capacity, in lines, of the OS pipe behind the process's standard output.
OutCap == 1
\* Capacity, in chunks, of the OS pipe behind the process's standard error.
ErrCap == 1

\* ------------------------------------------------------------- text model
\* Python's None, where a string is expected and where a text is expected.
None == "None"
NoText == <<"None">>

Whitespace == {"ws", "nl"}

\* str.strip(): drops the leading and the trailing whitespace of a text.
RECURSIVE LStrip(_)
LStrip(s) ==
    IF s # <<>> /\ Head(s) \in Whitespace THEN LStrip(Tail(s)) ELSE s

RECURSIVE RStrip(_)
RStrip(s) ==
    IF s # <<>> /\ s[Len(s)] \in Whitespace
    THEN RStrip(SubSeq(s, 1, Len(s) - 1))
    ELSE s

Strip(s) == RStrip(LStrip(s))

\* Decoded JSON values carry their Python type in the field t.
JDict(r) == [t |-> "dict", v |-> r]
JList(q) == [t |-> "list", v |-> q]
JInt == [t |-> "int", v |-> <<>>]
JInvalid == [t |-> "JSONDecodeError", v |-> <<>>]

\* The texts of the question markers' payloads, by token:
\*   pq1   {"questions": [{"question": "Q1", "header": "H1",
\*          "options": [{"label": "A", "description": "d"}, {"label": "B"}]}]}
\*   pq2   {"questions": [{"question": "Q2", "header": "H2",
\*          "options": [{"label": "C"}, {"label": "D"}]}, {"question": "Q3"}]}
\*   pqGap     {"questions": [{"question": "Q4"}, {"header": "H5"},
\*                            {"question": "Q6"}]}
\*   pqNoList  {"questions": 5}
\*   pqNoDict  {"questions": [1]}
\*   pqOther   {"other": 1}
PayloadTexts ==
    [ pq1 |-> JDict([questions |-> JList(<<
                JDict([question |-> "Q1", header |-> "H1",
                       options |-> << [label |-> "A", description |-> "d"],
                                      [label |-> "B"] >>]) >>)]),
      pq2 |-> JDict([questions |-> JList(<<
                JDict([question |-> "Q2", header |-> "H2",
                       options |-> << [label |-> "C"], [label |-> "D"] >>]),
                JDict([question |-> "Q3"]) >>)]),
      pqGap |-> JDict([questions |-> JList(<<
                JDict([question |-> "Q4"]),
                JDict([header |-> "H5"]),
                JDict([question |-> "Q6"]) >>)]),
      pqNoList |-> JDict([questions |-> JInt]),
      pqNoDict |-> JDict([questions |-> JList(<< JInt >>)]),
      pqOther  |-> JDict([other |-> JInt]) ]

\* The JSON documents the subordinate process can print, by token:
\*   sys1     {"type": "system", "session_id": "s1"}
\*   sys2     {"type": "system", "session_id": "s2"}
\*   asst     {"type": "assistant", "message": {"content": [
\*               {"type": "tool_use", "name": "Bash", "input": {"command": "ls"}},
\*               {"type": "text", "text": "hello"}]}}
\*   asstQ    {"type": "assistant", "message": {"content": [
\*               {"type": "text", "text": "pick <!--QUESTION:pq1-->"}]}}
\*   asstQ2   {"type": "assistant", "message": {"content": [
\*               {"type": "text", "text": "<!--QUESTION:pq2-->"}]}}
\*   resOk    {"type": "result", "result": "done", "is_error": false}
\*   resErr   {"type": "result", "result": "bad", "is_error": true}
\*   resEmpty {"type": "result", "result": "", "is_error": false}
\*   notype   {"result": "x"}
\*   num      1
JsonTexts ==
    [ sys1     |-> JDict([type |-> "system", session_id |-> "s1"]),
      sys2     |-> JDict([type |-> "system", session_id |-> "s2"]),
      asst     |-> JDict([type |-> "assistant", message |-> [content |-> <<
                       [type |-> "tool_use", name |-> "Bash"],
                       [type |-> "text", text |-> <<"hello">>] >>]]),
      asstQ    |-> JDict([type |-> "assistant", message |-> [content |-> <<
                       [type |-> "text",
                        text |-> <<"pick", "ws", "qopen", "pq1", "qclose">>] >>]]),
      asstQ2   |-> JDict([type |-> "assistant", message |-> [content |-> <<
                       [type |-> "text",
                        text |-> <<"qopen", "pq2", "qclose">>] >>]]),
      resOk    |-> JDict([type |-> "result", result |-> <<"done">>,
                          is_error |-> FALSE]),
      resErr   |-> JDict([type |-> "result", result |-> <<"bad">>,
                          is_error |-> TRUE]),
      resEmpty |-> JDict([type |-> "result", result |-> <<>>, is_error |-> FALSE]),
      notype   |-> JDict([result |-> <<"x">>]),
      num      |-> JInt,
      pq1      |-> PayloadTexts.pq1,
      pq2      |-> PayloadTexts.pq2,
      pqGap    |-> PayloadTexts.pqGap,
      pqNoList |-> PayloadTexts.pqNoList,
      pqNoDict |-> PayloadTexts.pqNoDict,
      pqOther  |-> PayloadTexts.pqOther ]

\* json.loads(text): a text that is one JSON document decodes to its value (the
\* decoder accepts whitespace around the document); any other text, the empty one
\* included, raises JSONDecodeError.
JsonLoads(text) ==
    LET body == Strip(text)
    IN  IF Len(body) = 1 /\ body[1] \in DOMAIN JsonTexts
        THEN JsonTexts[body[1]]
        ELSE JInvalid

\* dict.get(key, default)
DictGet(d, key, default) == IF key \in DOMAIN d THEN d[key] ELSE default

\* ClaudeEvent(type=data.get("type", "unknown"), data=data)
ClaudeEvent(data) == [type |-> DictGet(data, "type", "unknown"), data |-> data]

\* ClaudeEvent.session_id
event_session_id(event) == DictGet(event.data, "session_id", None)

\* ClaudeEvent.is_result
is_result(event) == event.type = "result"

\* ClaudeEvent.is_error
is_error(event) == is_result(event) /\ DictGet(event.data, "is_error", FALSE)

\* ClaudeEvent.result_text
result_text(event) ==
    IF is_result(event) THEN DictGet(event.data, "result", NoText) ELSE NoText

\* "\n".join(texts)
RECURSIVE JoinTexts(_, _)
JoinTexts(texts, sep) ==
    IF texts = <<>> THEN <<>>
    ELSE IF Len(texts) = 1 THEN Head(texts)
    ELSE Head(texts) \o sep \o JoinTexts(Tail(texts), sep)

\* [block["text"] for block in content if block.get("type") == "text"]
RECURSIVE TextBlocks(_)
TextBlocks(content) ==
    IF content = <<>> THEN <<>>
    ELSE IF DictGet(Head(content), "type", None) = "text"
         THEN <<Head(content).text>> \o TextBlocks(Tail(content))
         ELSE TextBlocks(Tail(content))

\* A text_content that takes the text of the first text block only.
text_content_FirstBlock(event) ==
    IF event.type # "assistant" THEN NoText
    ELSE LET message == DictGet(event.data, "message", [content |-> <<>>])
             content == DictGet(message, "content", <<>>)
             texts   == TextBlocks(content)
         IN  IF texts # <<>> THEN Head(texts) ELSE NoText

\* ClaudeEvent.text_content
text_content(event) ==
    IF event.type # "assistant" THEN NoText
    ELSE LET message == DictGet(event.data, "message", [content |-> <<>>])
             content == DictGet(message, "content", <<>>)
             texts   == TextBlocks(content)
         IN  IF texts # <<>> THEN JoinTexts(texts, <<"nl">>) ELSE NoText

\* [block for block in content if block.get("type") == "tool_use"]
RECURSIVE ToolBlocks(_)
ToolBlocks(content) ==
    IF content = <<>> THEN <<>>
    ELSE IF DictGet(Head(content), "type", None) = "tool_use"
         THEN <<Head(content)>> \o ToolBlocks(Tail(content))
         ELSE ToolBlocks(Tail(content))

\* ClaudeEvent.tool_uses
tool_uses(event) ==
    IF event.type # "assistant" THEN <<>>
    ELSE LET message == DictGet(event.data, "message", [content |-> <<>>])
         IN  ToolBlocks(DictGet(message, "content", <<>>))

\* Python truthiness of an optional text: None and the empty text are false.
Truthy(x) == x # NoText /\ x # <<>>

\* Index of the first occurrence of token tok in text at or after position i,
\* or 0 when there is none.
RECURSIVE FindToken(_, _, _)
FindToken(text, tok, i) ==
    IF i > Len(text) THEN 0
    ELSE IF text[i] = tok THEN i
    ELSE FindToken(text, tok, i + 1)

\* QUESTION_PATTERN.finditer(text): the payloads of the matches of
\* <!--QUESTION:(.*?)--> from position i on, left to right; each match ends at
\* the first --> after its opening delimiter and the scan resumes behind it.
RECURSIVE QuestionMatches(_, _)
QuestionMatches(text, i) ==
    LET open == FindToken(text, "qopen", i)
        close == IF open = 0 THEN 0 ELSE FindToken(text, "qclose", open + 1)
    IN  IF open = 0 \/ close = 0 THEN <<>>
        ELSE <<SubSeq(text, open + 1, close - 1)>> \o QuestionMatches(text, close + 1)

\* Question(question=q["question"], header=q.get("header", ""),
\*          options=q.get("options", []))
Question(q) ==
    [question |-> q.question,
     header   |-> DictGet(q, "header", ""),
     options  |-> DictGet(q, "options", <<>>)]

\* The inner loop of detect_questions over the question entries of one payload:
\* appends to acc until an entry raises. A dict without "question" raises
\* KeyError; an entry that is no dict raises TypeError.
RECURSIVE AppendQuestions(_, _)
AppendQuestions(acc, entries) ==
    IF entries = <<>> THEN [questions |-> acc, raised |-> None]
    ELSE LET q == Head(entries)
         IN  IF q.t # "dict" THEN [questions |-> acc, raised |-> "TypeError"]
             ELSE IF "question" \notin DOMAIN q.v
                  THEN [questions |-> acc, raised |-> "KeyError"]
             ELSE AppendQuestions(Append(acc, Question(q.v)), Tail(entries))

\* The body of the loop of detect_questions for the matches from the first one on.
\* JSONDecodeError and KeyError are caught (continue); any other exception leaves
\* detect_questions.
RECURSIVE DetectLoop(_, _)
DetectLoop(acc, matches) ==
    IF matches = <<>> THEN [questions |-> acc, raised |-> None]
    ELSE LET data == JsonLoads(Head(matches))
         IN  IF data.t = "JSONDecodeError" THEN DetectLoop(acc, Tail(matches))
             ELSE IF data.t # "dict"
                  THEN [questions |-> acc, raised |-> "AttributeError"]
             ELSE LET qs == DictGet(data.v, "questions", JList(<<>>))
                  IN  IF qs.t # "list"
                      THEN [questions |-> acc, raised |-> "TypeError"]
                      ELSE LET r == AppendQuestions(acc, qs.v)
                           IN  IF r.raised \in {None, "KeyError"}
                               THEN DetectLoop(r.questions, Tail(matches))
                               ELSE r

\* detect_questions(text): the questions found, and the exception that left the
\* function, if any.
detect_questions(text) == DetectLoop(<<>>, QuestionMatches(text, 1))

\* Python truthiness of an optional string: None and "" are false.
StrTruthy(x) == x # None /\ x # ""

\* config.agent as SpektacularConfig() builds it.
DefaultAgent ==
    [command |-> <<"claude">>,
     args |-> << <<"--output-format">>, <<"stream-json">>, <<"--verbose">> >>,
     allowed_tools |-> << <<"Bash">>, <<"Read">>, <<"Write">>, <<"Edit">>, <<"Glob">>,
                          <<"Grep">>, <<"WebFetch">>, <<"WebSearch">> >>,
     dangerously_skip_permissions |-> FALSE]

\* run_claude without the lines that add the resume flag.
BuildCmd_NoResume(prompt, agent, session_id) ==
    << agent.command, <<"-p">>, prompt >>
    \o agent.args
    \o (IF agent.allowed_tools # <<>>
        THEN << <<"--allowedTools">>, JoinTexts(agent.allowed_tools, <<",">>) >>
        ELSE <<>>)
    \o (IF agent.dangerously_skip_permissions
        THEN << <<"--dangerously-skip-permissions">> >>
        ELSE <<>>)

\* run_claude adding the permission switch whatever the configuration says.
BuildCmd_AlwaysSkips(prompt, agent, session_id) ==
    << agent.command, <<"-p">>, prompt >>
    \o agent.args
    \o (IF agent.allowed_tools # <<>>
        THEN << <<"--allowedTools">>, JoinTexts(agent.allowed_tools, <<",">>) >>
        ELSE <<>>)
    \o << <<"--dangerously-skip-permissions">> >>
    \o (IF StrTruthy(session_id) THEN << <<"--resume">>, <<session_id>> >> ELSE <<>>)

\* The command line of run_claude: a list of texts.
BuildCmd(prompt, agent, session_id) ==
    << agent.command, <<"-p">>, prompt >>
    \o agent.args
    \o (IF agent.allowed_tools # <<>>
        THEN << <<"--allowedTools">>, JoinTexts(agent.allowed_tools, <<",">>) >>
        ELSE <<>>)
    \o (IF agent.dangerously_skip_permissions
        THEN << <<"--dangerously-skip-permissions">> >>
        ELSE <<>>)
    \o (IF StrTruthy(session_id) THEN << <<"--resume">>, <<session_id>> >> ELSE <<>>)

NoError == [kind |-> "None", code |-> 0, text |-> <<>>]

\* run_claude without the look at process.returncode.
ExitError_Ignored(code, stderr_text) == NoError

\* The end of run_claude once stdout is exhausted: RuntimeError carrying the exit
\* code and the stderr text when the exit code is not 0.
ExitError(code, stderr_text) ==
    IF code # 0
    THEN [kind |-> "RuntimeError", code |-> code, text |-> stderr_text]
    ELSE NoError

\* ------------------------------------------------------------------ state
VARIABLES
    debug_enabled,   \* config.debug.enabled
    process,         \* the subordinate process: "none", "running", "exited"
    proc_pending,    \* the write() the process is executing (blocked while the pipe is full)
    out_hist,        \* every line the process has written to standard output
    err_hist,        \* every chunk the process has written to standard error
    stdout_pipe,     \* lines in the standard-output pipe, not yet read
    stderr_pipe,     \* chunks in the standard-error pipe, not yet read
    stdout_closed,   \* the process has closed its end of standard output
    stderr_closed,   \* the process has closed its end of standard error
    exit_code,       \* the exit status of the process: <<>> while it runs, then <<code>>
    returncode,      \* process.returncode: <<>> for None, <<code>> once wait() returns
    stderr_thread,   \* the drain thread: "unstarted", "running", "done"
    drain_acc,       \* what process.stderr.read() has collected so far
    stderr_buf,      \* stderr_buf (io.StringIO)
    rc_pc,           \* position of the run_claude generator
    line,            \* the local variable line of run_claude
    nread,           \* number of lines the generator has taken from process.stdout
    received,        \* the events handed to the consumer, in order
    error,           \* the exception run_claude raised, if any
    debug_log,       \* the debug log handle: None, "open" or "closed"
    log_buf,         \* text written to the handle and not yet flushed
    log_file,        \* content of the log file on disk
    command,         \* run_claude's parameter command, the caller's label
    fs,              \* the directories and files run_claude has created
    \* ---- the conversation loops
    frontend,        \* which front end runs the conversation: "plan" or "tui"
    session_id,      \* run_plan's session_id, PlanTUI._session_id
    invocations,     \* the command line of every run_claude call so far
    plan_output,     \* the texts write_plan_output has written, in order
    conv_lines,      \* every stdout line run_claude has read in the conversation, in order
    p_pc,            \* position of run_plan
    turn_lines,      \* run_plan: the stdout lines of the current turn's process
    turn_exit,       \* run_plan: exit code of the current turn's process, <<>> while it runs
    questions_found, \* run_plan: questions_found
    final_result,    \* run_plan: final_result
    current_prompt,  \* run_plan: current_prompt
    answers,         \* prompt_user_for_answer: answers
    conv_error,      \* the exception that left run_plan, if any
    workers,         \* PlanTUI: the _run_agent workers started so far
    mq,              \* PlanTUI: the messages posted and not yet handled
    pending_questions,  \* PlanTUI._pending_questions
    pending_answers,    \* PlanTUI._pending_answers
    panel,           \* PlanTUI: a QuestionPanel is mounted in #question-area
    status,          \* PlanTUI._current_status
    result_plan_dir, \* PlanTUI.result_plan_dir is set
    \* ---- the two front ends on the same inputs
    script,          \* what the process of each turn prints and how it exits
    sync,            \* what run_plan did on the script, once it has ended
    \* ---- the functions on their own
    pure_fn,         \* the function that is called
    pure_in,         \* its arguments
    pure_out         \* what it returned or raised, once it has been called

vars == << debug_enabled, process, proc_pending, out_hist, err_hist, stdout_pipe,
           stderr_pipe, stdout_closed, stderr_closed, exit_code, returncode,
           stderr_thread,
           drain_acc, stderr_buf, rc_pc, line, nread, received, error, debug_log,
           log_buf, log_file, command, fs, frontend, session_id, invocations, plan_output,
           conv_lines,
           p_pc, turn_lines, turn_exit, questions_found, final_result,
           current_prompt, answers, conv_error, workers, mq, pending_questions,
           pending_answers, panel, status, result_plan_dir, script, sync,
           pure_fn, pure_in, pure_out >>

runnerVars == << debug_enabled, process, proc_pending, out_hist, err_hist,
                 stdout_pipe, stderr_pipe, stdout_closed, stderr_closed, exit_code,
                 returncode, stderr_thread, drain_acc, stderr_buf, rc_pc, line,
                 nread, received, error, debug_log, log_buf, log_file,
                 command, fs >>
sharedVars == << session_id, invocations, plan_output, conv_lines >>
planVars == << p_pc, turn_lines, turn_exit, questions_found, final_result,
               current_prompt, answers, conv_error >>
tuiVars == << workers, mq, pending_questions, pending_answers, panel, status,
              result_plan_dir >>
convVars == << frontend, sharedVars, planVars, tuiVars >>
pairVars == << script, sync >>
pureVars == << pure_fn, pure_in, pure_out >>

procVars == << process, proc_pending, out_hist, err_hist, stdout_closed,
               stderr_closed, exit_code >>
pipeVars == << stdout_pipe, stderr_pipe >>
drainVars == << stderr_thread, drain_acc, stderr_buf >>
genVars == << rc_pc, line, nread, received, error, returncode >>
logVars == << debug_log, log_buf, log_file >>

\* The lines the subordinate process may print on standard output.
StdoutLines ==
    { <<"ws", "nl">>,             \* a blank line
      <<"junk", "nl">>,           \* not JSON
      <<"num", "nl">>,            \* JSON, not an object
      <<"ws", "sys1", "nl">>,     \* a record, indented
      <<"resOk", "nl">>,
      <<"notype">> }              \* a record, no newline after it

\* The chunks the subordinate process may print on standard error.
StderrChunks == { <<"boom">>, <<"warn", "nl">> }

ExitCodes == {0, 1}

NoWrite == [fd |-> "none", data |-> <<>>]

\* The combined prompt build_prompt returns.
PromptText == <<"PROMPT">>

NoExc == [kind |-> "None", msg |-> <<>>]

\* The conversation state before the front end has started a turn.
ConvStart ==
    /\ session_id = None
    /\ invocations = <<>>
    /\ plan_output = <<>>
    /\ conv_lines = <<>>
    /\ p_pc = "invoke"
    /\ turn_lines = <<>>
    /\ turn_exit = <<>>
    /\ questions_found = <<>>
    /\ final_result = NoText
    /\ current_prompt = PromptText
    /\ answers = <<>>
    /\ conv_error = NoExc
    /\ workers = <<>>
    /\ mq = <<>>
    /\ pending_questions = <<>>
    /\ pending_answers = <<>>
    /\ panel = FALSE
    /\ status = ""
    /\ result_plan_dir = FALSE

\* What run_plan did on a script: its command lines, how it ended, what it wrote.
NoOutcome == [invocations |-> <<>>, terminal |-> "none", output |-> <<>>]

\* No script is being played.
PairIdle ==
    /\ script = <<>>
    /\ sync = NoOutcome

\* run_claude has been called; nothing has run yet.
RunnerStart ==
    /\ process = "none"
    /\ proc_pending = NoWrite
    /\ out_hist = <<>>
    /\ err_hist = <<>>
    /\ stdout_pipe = <<>>
    /\ stderr_pipe = <<>>
    /\ stdout_closed = FALSE
    /\ stderr_closed = FALSE
    /\ exit_code = <<>>
    /\ returncode = <<>>
    /\ stderr_thread = "unstarted"
    /\ drain_acc = <<>>
    /\ stderr_buf = <<>>
    /\ rc_pc = "created"
    /\ line = <<>>
    /\ nread = 0
    /\ received = <<>>
    /\ error = NoError
    /\ debug_log = None
    /\ log_buf = <<>>
    /\ log_file = <<>>
    /\ fs = {}

\* No function is called on its own.
PureIdle ==
    /\ pure_fn = "none"
    /\ pure_in = <<>>
    /\ pure_out = <<>>

\* The labels the callers of run_claude pass as command: the default and "plan".
CommandLabels == {"unknown", "plan"}

RunnerInit ==
    /\ frontend = "none"
    /\ ConvStart
    /\ debug_enabled \in BOOLEAN
    /\ command \in CommandLabels
    /\ RunnerStart
    /\ PairIdle
    /\ PureIdle

\* ------------------------------------------------- the subordinate process
NumWrites == Len(out_hist) + Len(err_hist)

\* The process calls write() on one of its two streams.
ProcBegin(fd, data) ==
    /\ process = "running"
    /\ proc_pending = NoWrite
    /\ NumWrites < MaxWrites
    /\ \/ fd = "out" /\ ~stdout_closed /\ data \in StdoutLines
       \/ fd = "err" /\ ~stderr_closed /\ data \in StderrChunks
    /\ proc_pending' = [fd |-> fd, data |-> data]
    /\ UNCHANGED << command, fs >>
    /\ UNCHANGED << debug_enabled, process, out_hist, err_hist, stdout_closed,
                    stderr_closed, exit_code >>
    /\ UNCHANGED << pipeVars, drainVars, genVars, logVars >>
    /\ UNCHANGED << convVars, pairVars, pureVars >>

\* A write to standard output completes once the pipe has room.
ProcWriteStdout ==
    /\ proc_pending.fd = "out"
    /\ Len(stdout_pipe) < OutCap
    /\ stdout_pipe' = Append(stdout_pipe, proc_pending.data)
    /\ out_hist' = Append(out_hist, proc_pending.data)
    /\ proc_pending' = NoWrite
    /\ UNCHANGED << command, fs >>
    /\ UNCHANGED << debug_enabled, process, err_hist, stderr_pipe, stdout_closed,
                    stderr_closed, exit_code >>
    /\ UNCHANGED << drainVars, genVars, logVars >>
    /\ UNCHANGED << convVars, pairVars, pureVars >>

\* A write to standard error completes once the pipe has room.
ProcWriteStderr ==
    /\ proc_pending.fd = "err"
    /\ Len(stderr_pipe) < ErrCap
    /\ stderr_pipe' = Append(stderr_pipe, proc_pending.data)
    /\ err_hist' = Append(err_hist, proc_pending.data)
    /\ proc_pending' = NoWrite
    /\ UNCHANGED << command, fs >>
    /\ UNCHANGED << debug_enabled, process, out_hist, stdout_pipe, stdout_closed,
                    stderr_closed, exit_code >>
    /\ UNCHANGED << drainVars, genVars, logVars >>
    /\ UNCHANGED << convVars, pairVars, pureVars >>

ProcCloseStdout ==
    /\ process = "running"
    /\ proc_pending = NoWrite
    /\ ~stdout_closed
    /\ stdout_closed' = TRUE
    /\ UNCHANGED << command, fs >>
    /\ UNCHANGED << debug_enabled, process, proc_pending, out_hist, err_hist,
                    stderr_closed, exit_code >>
    /\ UNCHANGED << pipeVars, drainVars, genVars, logVars >>
    /\ UNCHANGED << convVars, pairVars, pureVars >>

ProcCloseStderr ==
    /\ process = "running"
    /\ proc_pending = NoWrite
    /\ ~stderr_closed
    /\ stderr_closed' = TRUE
    /\ UNCHANGED << command, fs >>
    /\ UNCHANGED << debug_enabled, process, proc_pending, out_hist, err_hist,
                    stdout_closed, exit_code >>
    /\ UNCHANGED << pipeVars, drainVars, genVars, logVars >>
    /\ UNCHANGED << convVars, pairVars, pureVars >>

\* The process exits; the exit closes whatever stream it had left open.
ProcExit(code) ==
    /\ process = "running"
    /\ proc_pending = NoWrite
    /\ code \in ExitCodes
    /\ process' = "exited"
    /\ exit_code' = <<code>>
    /\ stdout_closed' = TRUE
    /\ stderr_closed' = TRUE
    /\ UNCHANGED << command, fs >>
    /\ UNCHANGED << debug_enabled, proc_pending, out_hist, err_hist >>
    /\ UNCHANGED << pipeVars, drainVars, genVars, logVars >>
    /\ UNCHANGED << convVars, pairVars, pureVars >>

\* -------------------------------------------------------- the drain thread
\* process.stderr.read() takes what the pipe holds and goes on reading.
DrainRead ==
    /\ stderr_thread = "running"
    /\ stderr_pipe # <<>>
    /\ drain_acc' = drain_acc \o Head(stderr_pipe)
    /\ stderr_pipe' = Tail(stderr_pipe)
    /\ UNCHANGED << command, fs >>
    /\ UNCHANGED << debug_enabled, stdout_pipe, stderr_thread, stderr_buf >>
    /\ UNCHANGED << procVars, genVars, logVars >>
    /\ UNCHANGED << convVars, pairVars, pureVars >>

\* At end of file read() returns all it collected, stderr_buf.write() stores it
\* and drain_stderr returns.
DrainFinish ==
    /\ stderr_thread = "running"
    /\ stderr_pipe = <<>>
    /\ stderr_closed
    /\ stderr_buf' = stderr_buf \o drain_acc
    /\ stderr_thread' = "done"
    /\ UNCHANGED << command, fs >>
    /\ UNCHANGED << debug_enabled, drain_acc >>
    /\ UNCHANGED << procVars, pipeVars, genVars, logVars >>
    /\ UNCHANGED << convVars, pairVars, pureVars >>

\* ------------------------------------------------ the run_claude generator
\* The consumer asks for the next event: the generator starts, or resumes after
\* its yield.
ConsumerNext ==
    /\ rc_pc \in {"created", "yield"}
    /\ rc_pc' = IF rc_pc = "created" THEN "spawn" ELSE "loop"
    /\ UNCHANGED << command, fs >>
    /\ UNCHANGED << debug_enabled, line, nread, received, error, returncode >>
    /\ UNCHANGED << procVars, pipeVars, drainVars, logVars >>
    /\ UNCHANGED << convVars, pairVars, pureVars >>

\* subprocess.Popen(...) and stderr_buf = io.StringIO()
Spawn ==
    /\ rc_pc = "spawn"
    /\ process' = "running"
    /\ stderr_buf' = <<>>
    /\ rc_pc' = "start_thread"
    /\ UNCHANGED << command, fs >>
    /\ UNCHANGED << debug_enabled, proc_pending, out_hist, err_hist, stdout_closed,
                    stderr_closed, exit_code, stderr_thread, drain_acc, line, nread,
                    received, error, returncode >>
    /\ UNCHANGED << pipeVars, logVars >>
    /\ UNCHANGED << convVars, pairVars, pureVars >>

\* run_claude without stderr_thread.start(): the thread object is made and never
\* started.
StartThread_Skipped ==
    /\ rc_pc = "start_thread"
    /\ rc_pc' = "open_log"
    /\ UNCHANGED << command, fs >>
    /\ UNCHANGED << debug_enabled, stderr_thread, drain_acc, stderr_buf, line, nread,
                    received, error, returncode >>
    /\ UNCHANGED << procVars, pipeVars, logVars >>
    /\ UNCHANGED << convVars, pairVars, pureVars >>

\* stderr_thread = threading.Thread(target=drain_stderr); stderr_thread.start()
StartThread ==
    /\ rc_pc = "start_thread"
    /\ stderr_thread' = "running"
    /\ rc_pc' = "open_log"
    /\ UNCHANGED << command, fs >>
    /\ UNCHANGED << debug_enabled, drain_acc, stderr_buf, line, nread, received,
                    error, returncode >>
    /\ UNCHANGED << procVars, pipeVars, logVars >>
    /\ UNCHANGED << convVars, pairVars, pureVars >>

\* config.debug.log_dir as SpektacularConfig() builds it.
LogDir == <<".spektacular/logs">>

Dir(path) == [kind |-> "dir", path |-> path]
File(path) == [kind |-> "file", path |-> path]

\* f"{timestamp}_{tool_name}_{command}.log"; the token ts is the time stamp.
LogFileName(tool_name, label) == <<"ts", "_">> \o tool_name \o <<"_", label, ".log">>

\* What _open_debug_log leaves in the file system: log_dir.mkdir(parents=True,
\* exist_ok=True) and open(log_dir / filename, "w").
LogPaths(agent, label) ==
    { Dir(LogDir), File(LogDir \o <<"/">> \o LogFileName(agent.command, label)) }

\* An _open_debug_log that makes the log directory before it looks at
\* config.debug.enabled.
OpenDebugLog_MkdirFirst ==
    /\ rc_pc = "open_log"
    /\ debug_log' = IF debug_enabled THEN "open" ELSE None
    /\ fs' = IF debug_enabled THEN fs \cup LogPaths(DefaultAgent, command)
                              ELSE fs \cup {Dir(LogDir)}
    /\ rc_pc' = "loop"
    /\ UNCHANGED << debug_enabled, command, log_buf, log_file, line, nread, received,
                    error, returncode >>
    /\ UNCHANGED << procVars, pipeVars, drainVars >>
    /\ UNCHANGED << convVars, pairVars, pureVars >>

\* debug_log = _open_debug_log(config, command, effective_cwd)
OpenDebugLog ==
    /\ rc_pc = "open_log"
    /\ debug_log' = IF debug_enabled THEN "open" ELSE None
    /\ fs' = IF debug_enabled THEN fs \cup LogPaths(DefaultAgent, command) ELSE fs
    /\ rc_pc' = "loop"
    /\ UNCHANGED << debug_enabled, command, log_buf, log_file, line, nread, received,
                    error, returncode >>
    /\ UNCHANGED << procVars, pipeVars, drainVars >>
    /\ UNCHANGED << convVars, pairVars, pureVars >>

\* for line in process.stdout: line = line.strip(); if not line: continue
\* The read blocks until the pipe holds a line or the process has closed it.
ReadLine ==
    /\ rc_pc = "loop"
    /\ \/ /\ stdout_pipe # <<>>
          /\ line' = Strip(Head(stdout_pipe))
          /\ stdout_pipe' = Tail(stdout_pipe)
          /\ nread' = nread + 1
          /\ rc_pc' = IF line' = <<>> THEN "loop" ELSE "log"
       \/ /\ stdout_pipe = <<>>
          /\ stdout_closed
          /\ rc_pc' = "join"
          /\ UNCHANGED << line, stdout_pipe, nread >>
    /\ UNCHANGED << command, fs >>
    /\ UNCHANGED << debug_enabled, stderr_pipe, received, error, returncode >>
    /\ UNCHANGED << procVars, drainVars, logVars >>
    /\ UNCHANGED << convVars, pairVars, pureVars >>

\* run_claude without debug_log.flush(): the line stays in the handle's buffer.
WriteDebugLog_NoFlush ==
    /\ rc_pc = "log"
    /\ IF debug_log = "open"
       THEN /\ log_buf' = log_buf \o line \o <<"nl">>
            /\ UNCHANGED log_file
       ELSE UNCHANGED << log_file, log_buf >>
    /\ rc_pc' = "decode"
    /\ UNCHANGED << command, fs >>
    /\ UNCHANGED << debug_enabled, debug_log, line, nread, received, error,
                    returncode >>
    /\ UNCHANGED << procVars, pipeVars, drainVars >>
    /\ UNCHANGED << convVars, pairVars, pureVars >>

\* if debug_log: debug_log.write(line + "\n"); debug_log.flush()
WriteDebugLog ==
    /\ rc_pc = "log"
    /\ IF debug_log = "open"
       THEN /\ log_file' = log_file \o log_buf \o line \o <<"nl">>
            /\ log_buf' = <<>>
       ELSE UNCHANGED << log_file, log_buf >>
    /\ rc_pc' = "decode"
    /\ UNCHANGED << command, fs >>
    /\ UNCHANGED << debug_enabled, debug_log, line, nread, received, error,
                    returncode >>
    /\ UNCHANGED << procVars, pipeVars, drainVars >>
    /\ UNCHANGED << convVars, pairVars, pureVars >>

\* What the try block of the loop does with a non-blank line: json.loads raises
\* JSONDecodeError (continue), or returns a dict (an event is yielded), or returns
\* another value, on which data.get raises AttributeError.
LineOutcome(text) ==
    LET data == JsonLoads(text)
    IN  IF data.t = "JSONDecodeError" THEN "continue"
        ELSE IF data.t = "dict" THEN "yield"
        ELSE "AttributeError"

\* data = json.loads(line); yield ClaudeEvent(type=data.get("type", "unknown"), data=data)
Decode ==
    /\ rc_pc = "decode"
    /\ \/ /\ LineOutcome(line) = "continue"
          /\ rc_pc' = "loop"
          /\ UNCHANGED << received, error >>
       \/ /\ LineOutcome(line) = "yield"
          /\ received' = Append(received, ClaudeEvent(JsonLoads(line).v))
          /\ rc_pc' = "yield"
          /\ UNCHANGED error
       \/ /\ LineOutcome(line) = "AttributeError"
          /\ error' = [kind |-> "AttributeError", code |-> 0, text |-> <<>>]
          /\ rc_pc' = "finally"
          /\ UNCHANGED received
    /\ UNCHANGED << command, fs >>
    /\ UNCHANGED << debug_enabled, line, nread, returncode >>
    /\ UNCHANGED << procVars, pipeVars, drainVars, logVars >>
    /\ UNCHANGED << convVars, pairVars, pureVars >>

\* run_claude without the wait of join(): the generator goes on whether or not the
\* drain thread has finished.
JoinThread_NoWait ==
    /\ rc_pc = "join"
    /\ rc_pc' = "wait"
    /\ UNCHANGED << command, fs >>
    /\ UNCHANGED << debug_enabled, line, nread, received, error, returncode >>
    /\ UNCHANGED << procVars, pipeVars, drainVars, logVars >>
    /\ UNCHANGED << convVars, pairVars, pureVars >>

\* stderr_thread.join()
JoinThread ==
    /\ rc_pc = "join"
    /\ stderr_thread = "done"
    /\ rc_pc' = "wait"
    /\ UNCHANGED << command, fs >>
    /\ UNCHANGED << debug_enabled, line, nread, received, error, returncode >>
    /\ UNCHANGED << procVars, pipeVars, drainVars, logVars >>
    /\ UNCHANGED << convVars, pairVars, pureVars >>

\* process.wait()
Wait ==
    /\ rc_pc = "wait"
    /\ process = "exited"
    /\ returncode' = exit_code
    /\ rc_pc' = "check"
    /\ UNCHANGED << command, fs >>
    /\ UNCHANGED << debug_enabled, line, nread, received, error >>
    /\ UNCHANGED << procVars, pipeVars, drainVars, logVars >>
    /\ UNCHANGED << convVars, pairVars, pureVars >>

\* if process.returncode != 0: raise RuntimeError(f"... {returncode}: {stderr_buf.getvalue()}")
CheckExit ==
    /\ rc_pc = "check"
    /\ error' = ExitError(returncode[1], stderr_buf)
    /\ rc_pc' = "finally"
    /\ UNCHANGED << command, fs >>
    /\ UNCHANGED << debug_enabled, line, nread, received, returncode >>
    /\ UNCHANGED << procVars, pipeVars, drainVars, logVars >>
    /\ UNCHANGED << convVars, pairVars, pureVars >>

\* A run_claude that closes the debug log after the loop and the exit check, with
\* no finally: an exception leaves the handle as it is.
Finally_CloseOnReturn ==
    /\ rc_pc = "finally"
    /\ IF debug_log = "open" /\ error = NoError
       THEN /\ debug_log' = "closed"
            /\ log_file' = log_file \o log_buf
            /\ log_buf' = <<>>
       ELSE UNCHANGED << debug_log, log_file, log_buf >>
    /\ rc_pc' = IF error = NoError THEN "returned" ELSE "raised"
    /\ UNCHANGED << command, fs >>
    /\ UNCHANGED << debug_enabled, line, nread, received, error, returncode >>
    /\ UNCHANGED << procVars, pipeVars, drainVars >>
    /\ UNCHANGED << convVars, pairVars, pureVars >>

\* finally: if debug_log: debug_log.close()
\* then the generator returns, or the pending exception goes on to the consumer.
Finally ==
    /\ rc_pc = "finally"
    /\ IF debug_log = "open"
       THEN /\ debug_log' = "closed"
            /\ log_file' = log_file \o log_buf
            /\ log_buf' = <<>>
       ELSE UNCHANGED << debug_log, log_file, log_buf >>
    /\ rc_pc' = IF error = NoError THEN "returned" ELSE "raised"
    /\ UNCHANGED << command, fs >>
    /\ UNCHANGED << debug_enabled, line, nread, received, error, returncode >>
    /\ UNCHANGED << procVars, pipeVars, drainVars >>
    /\ UNCHANGED << convVars, pairVars, pureVars >>

ProcStep ==
    \/ \E fd \in {"out", "err"} : \E data \in StdoutLines \cup StderrChunks :
            ProcBegin(fd, data)
    \/ ProcWriteStdout
    \/ ProcWriteStderr
    \/ ProcCloseStdout
    \/ ProcCloseStderr
    \/ \E code \in ExitCodes : ProcExit(code)

DrainStep ==
    \/ DrainRead
    \/ DrainFinish

GenStep ==
    \/ Spawn
    \/ StartThread
    \/ OpenDebugLog
    \/ ReadLine
    \/ WriteDebugLog
    \/ Decode
    \/ JoinThread
    \/ Wait
    \/ CheckExit
    \/ Finally

RunnerNext ==
    \/ ProcStep
    \/ DrainStep
    \/ GenStep
    \/ ConsumerNext

RunnerSpec == RunnerInit /\ [][RunnerNext]_vars

\* The operating system schedules the process and both threads, and the consumer
\* goes on asking for events.
RunnerFairSpec ==
    /\ RunnerSpec
    /\ WF_vars(ProcStep)
    /\ WF_vars(DrainStep)
    /\ WF_vars(GenStep)
    /\ WF_vars(ConsumerNext)

\* ------------------------------------------ a consumer that stops early
\* The exception the interpreter raises at the yield of a generator it closes.
GeneratorExit == [kind |-> "GeneratorExit", code |-> 0, text |-> <<>>]

\* The consumer leaves its for loop at an event (run_plan raises, _run_agent
\* returns or catches an exception): its frame drops the only reference to the
\* generator, the interpreter closes the generator, and GeneratorExit is raised
\* at the yield, inside the try block.  The process and the drain thread are
\* left as they are.
Abandon ==
    /\ rc_pc = "yield"
    /\ error' = GeneratorExit
    /\ rc_pc' = "finally"
    /\ UNCHANGED << command, fs >>
    /\ UNCHANGED << debug_enabled, line, nread, received, returncode >>
    /\ UNCHANGED << procVars, pipeVars, drainVars, logVars >>
    /\ UNCHANGED << convVars, pairVars, pureVars >>

\* run_claude as run_plan and _run_agent call it, command="plan".
AbandonInit ==
    /\ frontend = "none"
    /\ ConvStart
    /\ debug_enabled \in BOOLEAN
    /\ command = "plan"
    /\ RunnerStart
    /\ PairIdle
    /\ PureIdle

AbandonNext ==
    \/ ProcStep
    \/ DrainStep
    \/ GenStep
    \/ ConsumerNext
    \/ Abandon

AbandonSpec == AbandonInit /\ [][AbandonNext]_vars

\* ===================================================== run_claude: claims
\* The lines the generator has taken from the pipe, in the order it took them.
LinesRead == SubSeq(out_hist, 1, nread)

\* The events that a sequence of standard-output lines stands for: one per
\* non-blank line that decodes into a record, in line order.
RECURSIVE EventsOf(_)
EventsOf(lines) ==
    IF lines = <<>> THEN <<>>
    ELSE LET text == Strip(Head(lines))
         IN  IF text # <<>> /\ JsonLoads(text).t = "dict"
             THEN <<ClaudeEvent(JsonLoads(text).v)>> \o EventsOf(Tail(lines))
             ELSE EventsOf(Tail(lines))

\* The text a debug log holds after these lines: each non-blank line as handed to
\* the decoder, followed by a newline.
RECURSIVE LogOf(_)
LogOf(lines) ==
    IF lines = <<>> THEN <<>>
    ELSE LET text == Strip(Head(lines))
         IN  IF text # <<>>
             THEN text \o <<"nl">> \o LogOf(Tail(lines))
             ELSE LogOf(Tail(lines))

RECURSIVE Flatten(_)
Flatten(chunks) ==
    IF chunks = <<>> THEN <<>> ELSE Head(chunks) \o Flatten(Tail(chunks))

Ended == rc_pc \in {"returned", "raised"}

\* The loop over process.stdout has seen end of file with every line read.
StdoutExhausted ==
    /\ stdout_closed
    /\ stdout_pipe = <<>>
    /\ nread = Len(out_hist)
    /\ rc_pc \notin {"created", "spawn", "start_thread", "open_log", "loop",
                     "log", "decode", "yield"}

\* stderr_thread.join() has returned.
Joined == rc_pc \in {"wait", "check"} \/ returncode # <<>>

\* The process is blocked writing to a full stderr pipe, the supervisor is blocked
\* reading an empty stdout pipe, and no thread is draining stderr.
PipeDeadlock ==
    /\ proc_pending.fd = "err"
    /\ Len(stderr_pipe) >= ErrCap
    /\ rc_pc = "loop"
    /\ stdout_pipe = <<>>
    /\ ~stdout_closed
    /\ stderr_thread # "running"

\* C1: the two pipes never deadlock run_claude: the pipe-deadlock state is never
\* reached, and if the process closes its streams and exits while the consumer
\* keeps asking for events, run_claude exhausts stdout, joins the drain thread and
\* returns or raises.
C1_NoDeadlock ==
    /\ []~PipeDeadlock
    /\ <>(process = "exited") => <>(Ended /\ StdoutExhausted /\ Joined)

\* C2: the drain thread is started before the first stdout line is read, and it
\* runs apart from the reader: a step that takes stderr output leaves the
\* generator where it is, and a step that reads a stdout line leaves the drain
\* thread's state alone.
C2_DrainStartedFirst ==
    [][ /\ nread' # nread => stderr_thread # "unstarted"
        /\ (drain_acc' # drain_acc \/ stderr_buf' # stderr_buf)
               => /\ stderr_thread = "running"
                  /\ UNCHANGED genVars
        /\ nread' # nread => UNCHANGED drainVars ]_vars

C2_Witness ==
    /\ rc_pc = "yield"
    /\ nread = 1
    /\ stderr_thread = "running"
    /\ drain_acc # <<>>

\* C3: once stdout is exhausted the generator joins the drain thread, then waits
\* for the exit, then looks at the exit code; stderr_buf is written by the drain
\* thread alone and the generator reads it only after the join.
C3_JoinWaitCheck ==
    [][ /\ stderr_buf' # stderr_buf
            => stderr_thread = "running" /\ stderr_thread' = "done" /\ UNCHANGED genVars
        /\ (rc_pc' # rc_pc /\ rc_pc' = "join")
            => rc_pc = "loop" /\ stdout_pipe = <<>> /\ stdout_closed
        /\ (rc_pc' # rc_pc /\ rc_pc = "join")
            => rc_pc' = "wait" /\ stderr_thread = "done"
        /\ (rc_pc' # rc_pc /\ rc_pc' = "wait") => rc_pc = "join"
        /\ (rc_pc' # rc_pc /\ rc_pc = "wait")
            => rc_pc' = "check" /\ process = "exited" /\ returncode' = exit_code
        /\ (rc_pc' # rc_pc /\ rc_pc' = "check") => rc_pc = "wait"
        /\ (error' # error /\ error'.kind = "RuntimeError")
            => /\ rc_pc = "check"
               /\ stderr_thread = "done"
               /\ error'.text = Flatten(err_hist) ]_vars

C3_Witness ==
    /\ rc_pc = "raised"
    /\ error.kind = "RuntimeError"
    /\ error.text = <<"warn", "nl", "boom">>
    /\ received # <<>>

\* C4: the number of events run_claude yields is the number of non-blank lines
\* that decode into a record; no other line halts the iteration or aborts the turn.
C4_EventCount ==
    Ended => /\ error.kind # "AttributeError"
             /\ Len(received) = Len(EventsOf(out_hist))

\* C5: the consumer has, at every moment, exactly the events of the lines read so
\* far, in line order, each handed over before the next line is read; when
\* run_claude has ended no event of a well-formed line is missing.
C5_EventOrder ==
    /\ received = EventsOf(SubSeq(out_hist, 1,
                    IF rc_pc \in {"log", "decode"} THEN nread - 1 ELSE nread))
    /\ Ended => received = EventsOf(out_hist)

\* C6: drained to exhaustion, run_claude fails exactly when the exit code is not 0:
\* with exit code 0 it has yielded the decoded events and raised nothing, otherwise
\* it has raised an error carrying the exit code and all of the stderr text.
C6_FailsIffNonZero ==
    (Ended /\ process = "exited") =>
        IF exit_code = <<0>>
        THEN error = NoError /\ received = EventsOf(out_hist)
        ELSE error = [kind |-> "RuntimeError", code |-> exit_code[1],
                      text |-> Flatten(err_hist)]

\* C8: with a debug log configured, whenever an event has just been handed to the
\* consumer the log file already holds, flushed, the line of that event and of every
\* non-blank line read before it, in read order, each exactly as the decoder got it.
C8_LogBeforeYield ==
    (debug_enabled /\ rc_pc \in {"decode", "yield"}) =>
        /\ log_file = LogOf(LinesRead)
        /\ log_buf = <<>>
        /\ line = Strip(out_hist[nread])

C8_Witness ==
    /\ debug_enabled
    /\ rc_pc = "yield"
    /\ Len(received) = 2
    /\ Len(log_file) > 4

\* ================================================== the conversation loops
\* In the conversation loops run_claude is seen from its consumer: each request
\* for the next event makes the generator read lines until one yields, raises, or
\* the stream ends.  A conversation has at most MaxTurns turns, and the processes
\* of its turns print at most MaxConvLines lines in all.
MaxConvLines == 2
MaxTurns == 2

\* The lines the process of a turn may print.
ConvLines ==
    { <<"sys1", "nl">>, <<"sys2", "nl">>, <<"asst", "nl">>, <<"asstQ", "nl">>,
      <<"asstQ2", "nl">>, <<"resOk", "nl">>, <<"resErr", "nl">>, <<"num", "nl">>,
      <<"junk", "nl">>, <<"resEmpty", "nl">> }

\* What the process of a turn has printed on standard error.
ConvStderr == <<"boom">>

\* What the loop of run_claude does with one line of standard output.
LineResult(raw) ==
    IF Strip(raw) = <<>> THEN "continue" ELSE LineOutcome(Strip(raw))

\* The exception the consumer sees for an error of run_claude, as str() shows it.
ExcOf(err) ==
    IF err.kind = "RuntimeError"
    THEN [kind |-> "RuntimeError",
          msg |-> <<"Claude process exited with code", ToString(err.code), ":">>
                  \o err.text]
    ELSE [kind |-> err.kind, msg |-> <<>>]

AttributeError == [kind |-> "AttributeError", code |-> 0, text |-> <<>>]

\* A loop body without the test of is_error: an error result is kept as a result.
EventEffect_IgnoreError(event, sid, final) ==
    LET text == text_content(event)
        detected == IF Truthy(text) THEN detect_questions(text)
                    ELSE [questions |-> <<>>, raised |-> None]
    IN  [ session_id |-> IF StrTruthy(event_session_id(event))
                         THEN event_session_id(event)
                         ELSE sid,
          text       |-> text,
          questions  |-> IF detected.raised = None THEN detected.questions ELSE <<>>,
          raised     |-> detected.raised,
          agent_error |-> FALSE,
          final      |-> IF detected.raised = None /\ is_result(event)
                         THEN result_text(event)
                         ELSE final ]

\* A loop body that keeps the first session id it has seen.
EventEffect_SetOnce(event, sid, final) ==
    LET text == text_content(event)
        detected == IF Truthy(text) THEN detect_questions(text)
                    ELSE [questions |-> <<>>, raised |-> None]
    IN  [ session_id |-> IF sid = None /\ StrTruthy(event_session_id(event))
                         THEN event_session_id(event)
                         ELSE sid,
          text       |-> text,
          questions  |-> IF detected.raised = None THEN detected.questions ELSE <<>>,
          raised     |-> detected.raised,
          agent_error |-> detected.raised = None /\ is_error(event),
          final      |-> IF detected.raised = None /\ is_result(event)
                            /\ ~is_error(event)
                         THEN result_text(event)
                         ELSE final ]

\* What one event does to the state of a conversation loop (the body of the for
\* loop of run_plan and of _run_agent): the session id it leaves, the questions it
\* adds, the result it leaves, and the exception it raises, if any.
EventEffect(event, sid, final) ==
    LET text == text_content(event)
        detected == IF Truthy(text) THEN detect_questions(text)
                    ELSE [questions |-> <<>>, raised |-> None]
    IN  [ session_id |-> IF StrTruthy(event_session_id(event))
                         THEN event_session_id(event)
                         ELSE sid,
          text       |-> text,
          questions  |-> IF detected.raised = None THEN detected.questions ELSE <<>>,
          raised     |-> detected.raised,
          agent_error |-> detected.raised = None /\ is_error(event),
          final      |-> IF detected.raised = None /\ is_result(event)
                            /\ ~is_error(event)
                         THEN result_text(event)
                         ELSE final ]

\* ---------------------------------------------------------------- run_plan
\* while True: questions_found = []; run_claude(current_prompt, config, session_id, ...)
PlanInvoke ==
    /\ frontend = "plan"
    /\ p_pc = "invoke"
    /\ Len(invocations) < MaxTurns
    /\ questions_found' = <<>>
    /\ invocations' = Append(invocations,
                             BuildCmd(current_prompt, DefaultAgent, session_id))
    /\ turn_lines' = <<>>
    /\ turn_exit' = <<>>
    /\ p_pc' = "events"
    /\ UNCHANGED << frontend, session_id, plan_output, conv_lines, final_result,
                    current_prompt, answers, conv_error, tuiVars >>
    /\ UNCHANGED << runnerVars, pairVars, pureVars >>

\* The process prints a line and run_claude reads it; a line that decodes into a
\* record is yielded and the body of the for loop runs on the event.
PlanLine(raw) ==
    /\ frontend = "plan"
    /\ p_pc = "events"
    /\ raw \in ConvLines
    /\ Len(conv_lines) < MaxConvLines
    /\ conv_lines' = Append(conv_lines, raw)
    /\ turn_lines' = Append(turn_lines, raw)
    /\ \/ /\ LineResult(raw) = "continue"
          /\ UNCHANGED << session_id, questions_found, final_result, p_pc,
                          conv_error >>
       \/ /\ LineResult(raw) = "AttributeError"
          /\ p_pc' = "failed"
          /\ conv_error' = ExcOf(AttributeError)
          /\ UNCHANGED << session_id, questions_found, final_result >>
       \/ /\ LineResult(raw) = "yield"
          /\ LET eff == EventEffect(ClaudeEvent(JsonLoads(Strip(raw)).v),
                                    session_id, final_result)
             IN  /\ session_id' = eff.session_id
                 /\ questions_found' = questions_found \o eff.questions
                 /\ final_result' = eff.final
                 /\ IF eff.raised # None
                    THEN /\ p_pc' = "failed"
                         /\ conv_error' = [kind |-> eff.raised, msg |-> <<>>]
                    ELSE IF eff.agent_error
                    THEN /\ p_pc' = "failed"
                         /\ conv_error' =
                               [kind |-> "RuntimeError",
                                msg |-> <<"Agent error:">>
                                        \o result_text(ClaudeEvent(
                                               JsonLoads(Strip(raw)).v))]
                    ELSE UNCHANGED << p_pc, conv_error >>
    /\ UNCHANGED << frontend, invocations, plan_output, turn_exit, current_prompt,
                    answers, tuiVars >>
    /\ UNCHANGED << runnerVars, pairVars, pureVars >>

\* A run_plan that looks at final_result before questions_found once the stream
\* has ended.
PlanEOF_ResultFirst(code) ==
    /\ frontend = "plan"
    /\ p_pc = "events"
    /\ code \in ExitCodes
    /\ turn_exit' = <<code>>
    /\ IF ExitError(code, ConvStderr) # NoError
       THEN /\ p_pc' = "failed"
            /\ conv_error' = ExcOf(ExitError(code, ConvStderr))
            /\ UNCHANGED << plan_output, answers >>
       ELSE IF Truthy(final_result)
       THEN /\ plan_output' = Append(plan_output, final_result)
            /\ p_pc' = "done"
            /\ UNCHANGED << answers, conv_error >>
       ELSE IF questions_found # <<>>
       THEN /\ p_pc' = "ask"
            /\ answers' = <<>>
            /\ UNCHANGED << plan_output, conv_error >>
       ELSE /\ p_pc' = "failed"
            /\ conv_error' = [kind |-> "RuntimeError",
                              msg |-> <<"Agent completed without producing a result">>]
            /\ UNCHANGED << plan_output, answers >>
    /\ UNCHANGED << frontend, session_id, invocations, conv_lines, turn_lines,
                    questions_found, final_result, current_prompt, tuiVars >>
    /\ UNCHANGED << runnerVars, pairVars, pureVars >>

\* The process closes standard output and exits: run_claude raises on a non-zero
\* exit code, otherwise the for loop ends and run_plan asks the user, or breaks
\* and writes the plan, or raises for want of a result.
PlanEOF(code) ==
    /\ frontend = "plan"
    /\ p_pc = "events"
    /\ code \in ExitCodes
    /\ turn_exit' = <<code>>
    /\ IF ExitError(code, ConvStderr) # NoError
       THEN /\ p_pc' = "failed"
            /\ conv_error' = ExcOf(ExitError(code, ConvStderr))
            /\ UNCHANGED << plan_output, answers >>
       ELSE IF questions_found # <<>>
       THEN /\ p_pc' = "ask"
            /\ answers' = <<>>
            /\ UNCHANGED << plan_output, conv_error >>
       ELSE IF Truthy(final_result)
       THEN /\ plan_output' = Append(plan_output, final_result)
            /\ p_pc' = "done"
            /\ UNCHANGED << answers, conv_error >>
       ELSE /\ p_pc' = "failed"
            /\ conv_error' = [kind |-> "RuntimeError",
                              msg |-> <<"Agent completed without producing a result">>]
            /\ UNCHANGED << plan_output, answers >>
    /\ UNCHANGED << frontend, session_id, invocations, conv_lines, turn_lines,
                    questions_found, final_result, current_prompt, tuiVars >>
    /\ UNCHANGED << runnerVars, pairVars, pureVars >>

\* What the user may type at a prompt.
TypedInputs == { <<"2">>, <<"3">>, <<"custom">> }

\* int(choice): the number a typed text stands for, or -1 for ValueError.
ParseInt(choice) ==
    IF choice = <<"0">> THEN 0
    ELSE IF choice = <<"1">> THEN 1
    ELSE IF choice = <<"2">> THEN 2
    ELSE IF choice = <<"3">> THEN 3
    ELSE -1

\* A prompt_user_for_answer that takes the typed number as the index itself.
TypedAnswer_ZeroBased(q, choice) ==
    IF q.options # <<>>
    THEN IF ParseInt(choice) # -1
            /\ 0 <= ParseInt(choice)
            /\ ParseInt(choice) < Len(q.options)
         THEN <<q.options[ParseInt(choice) + 1].label>>
         ELSE choice
    ELSE choice

\* The answer prompt_user_for_answer records for question q when the user types
\* choice.
TypedAnswer(q, choice) ==
    IF q.options # <<>>
    THEN IF ParseInt(choice) # -1
            /\ 0 <= ParseInt(choice) - 1
            /\ ParseInt(choice) - 1 < Len(q.options)
         THEN <<q.options[ParseInt(choice)].label>>
         ELSE choice
    ELSE choice

\* prompt_user_for_answer: the user answers the next question; after the last
\* one the answers are joined with "; " into the next prompt.
PlanAnswer(choice) ==
    /\ frontend = "plan"
    /\ p_pc = "ask"
    /\ choice \in TypedInputs
    /\ LET q == questions_found[Len(answers) + 1]
           all == Append(answers, TypedAnswer(q, choice))
       IN  /\ answers' = all
           /\ IF Len(all) = Len(questions_found)
              THEN /\ current_prompt' = JoinTexts(all, <<";", "ws">>)
                   /\ p_pc' = "invoke"
              ELSE UNCHANGED << current_prompt, p_pc >>
    /\ UNCHANGED << frontend, sharedVars, turn_lines, turn_exit, questions_found,
                    final_result, conv_error, tuiVars >>
    /\ UNCHANGED << runnerVars, pairVars, pureVars >>

PlanNext ==
    \/ PlanInvoke
    \/ \E raw \in ConvLines : PlanLine(raw)
    \/ \E code \in ExitCodes : PlanEOF(code)
    \/ \E choice \in TypedInputs : PlanAnswer(choice)


\* ----------------------------------------------------------------- PlanTUI
\* Number of number-key presses of the user in a conversation.
MaxKeys == 3

\* The number keys the user presses (QuestionPanel.BINDINGS binds 1 to 9).
Keys == {1, 2, 3}

Msg(kind, body) == [kind |-> kind, body |-> body]

\* A worker thread running _run_agent(prompt), before its first statement.
NewWorker(prompt) ==
    [pc |-> "start", prompt |-> prompt, questions_found |-> <<>>,
     final_result |-> NoText, turn_lines |-> <<>>, turn_exit |-> <<>>]

\* on_mount: self._set_status("* thinking ..."); self._run_agent(prompt)
TuiMount ==
    /\ frontend = "tui"
    /\ status = ""
    /\ status' = "thinking"
    /\ workers' = Append(workers, NewWorker(PromptText))
    /\ UNCHANGED << frontend, sharedVars, planVars, mq, pending_questions,
                    pending_answers, panel, result_plan_dir >>
    /\ UNCHANGED << runnerVars, pairVars, pureVars >>

\* _run_agent: questions_found = []; final_result = None;
\* run_claude(prompt, self.config, self._session_id, ...)
WorkerInvoke(w) ==
    /\ frontend = "tui"
    /\ w \in DOMAIN workers
    /\ workers[w].pc = "start"
    /\ Len(invocations) < MaxTurns
    /\ invocations' = Append(invocations,
                             BuildCmd(workers[w].prompt, DefaultAgent, session_id))
    /\ workers' = [workers EXCEPT ![w].pc = "events"]
    /\ UNCHANGED << frontend, session_id, plan_output, conv_lines, planVars, mq,
                    pending_questions, pending_answers, panel, status,
                    result_plan_dir >>
    /\ UNCHANGED << runnerVars, pairVars, pureVars >>

\* The AgentToolUse messages _run_agent posts for the tool_use blocks of an event.
RECURSIVE ToolMsgs(_)
ToolMsgs(tools) ==
    IF tools = <<>> THEN <<>>
    ELSE <<Msg("AgentToolUse", <<DictGet(Head(tools), "name", "tool")>>)>>
         \o ToolMsgs(Tail(tools))

\* A _run_agent that posts AgentError for an error result and reads on.
WorkerLine_NoReturn(w, raw) ==
    /\ frontend = "tui"
    /\ w \in DOMAIN workers
    /\ workers[w].pc = "events"
    /\ raw \in ConvLines
    /\ Len(conv_lines) < MaxConvLines
    /\ conv_lines' = Append(conv_lines, raw)
    /\ \/ /\ LineResult(raw) = "continue"
          /\ workers' = [workers EXCEPT ![w].turn_lines = Append(@, raw)]
          /\ UNCHANGED << session_id, mq >>
       \/ /\ LineResult(raw) = "AttributeError"
          /\ workers' = [workers EXCEPT ![w].turn_lines = Append(@, raw),
                                        ![w].pc = "done"]
          /\ mq' = Append(mq, Msg("AgentError", ExcOf(AttributeError).msg))
          /\ UNCHANGED session_id
       \/ /\ LineResult(raw) = "yield"
          /\ LET event == ClaudeEvent(JsonLoads(Strip(raw)).v)
                 eff == EventEffect(event, session_id, workers[w].final_result)
                 posts == ToolMsgs(tool_uses(event))
                          \o (IF Truthy(eff.text)
                              THEN <<Msg("AgentOutput", eff.text)>>
                              ELSE <<>>)
                          \o (IF eff.raised # None
                              THEN <<Msg("AgentError", <<eff.raised>>)>>
                              ELSE IF eff.agent_error
                              THEN <<Msg("AgentError",
                                         IF Truthy(result_text(event))
                                         THEN result_text(event)
                                         ELSE <<"Unknown error">>)>>
                              ELSE <<>>)
             IN  /\ session_id' = eff.session_id
                 /\ mq' = mq \o posts
                 /\ workers' =
                      [workers EXCEPT
                         ![w].turn_lines = Append(@, raw),
                         ![w].questions_found = @ \o eff.questions,
                         ![w].final_result = eff.final,
                         ![w].pc = IF eff.raised # None THEN "done" ELSE @]
    /\ UNCHANGED << frontend, invocations, plan_output, planVars,
                    pending_questions, pending_answers, panel, status,
                    result_plan_dir >>
    /\ UNCHANGED << runnerVars, pairVars, pureVars >>

\* The process of worker w prints a line and run_claude reads it; a line that
\* decodes into a record is yielded and the body of the for loop of _run_agent
\* runs on the event.  Any exception is caught and posted as AgentError.
WorkerLine(w, raw) ==
    /\ frontend = "tui"
    /\ w \in DOMAIN workers
    /\ workers[w].pc = "events"
    /\ raw \in ConvLines
    /\ Len(conv_lines) < MaxConvLines
    /\ conv_lines' = Append(conv_lines, raw)
    /\ \/ /\ LineResult(raw) = "continue"
          /\ workers' = [workers EXCEPT ![w].turn_lines = Append(@, raw)]
          /\ UNCHANGED << session_id, mq >>
       \/ /\ LineResult(raw) = "AttributeError"
          /\ workers' = [workers EXCEPT ![w].turn_lines = Append(@, raw),
                                        ![w].pc = "done"]
          /\ mq' = Append(mq, Msg("AgentError", ExcOf(AttributeError).msg))
          /\ UNCHANGED session_id
       \/ /\ LineResult(raw) = "yield"
          /\ LET event == ClaudeEvent(JsonLoads(Strip(raw)).v)
                 eff == EventEffect(event, session_id, workers[w].final_result)
                 posts == ToolMsgs(tool_uses(event))
                          \o (IF Truthy(eff.text)
                              THEN <<Msg("AgentOutput", eff.text)>>
                              ELSE <<>>)
                          \o (IF eff.raised # None
                              THEN <<Msg("AgentError", <<eff.raised>>)>>
                              ELSE IF eff.agent_error
                              THEN <<Msg("AgentError",
                                         IF Truthy(result_text(event))
                                         THEN result_text(event)
                                         ELSE <<"Unknown error">>)>>
                              ELSE <<>>)
             IN  /\ session_id' = eff.session_id
                 /\ mq' = mq \o posts
                 /\ workers' =
                      [workers EXCEPT
                         ![w].turn_lines = Append(@, raw),
                         ![w].questions_found = @ \o eff.questions,
                         ![w].final_result = eff.final,
                         ![w].pc = IF eff.raised # None \/ eff.agent_error
                                   THEN "done" ELSE @]
    /\ UNCHANGED << frontend, invocations, plan_output, planVars,
                    pending_questions, pending_answers, panel, status,
                    result_plan_dir >>
    /\ UNCHANGED << runnerVars, pairVars, pureVars >>

\* A _run_agent that looks at final_result before questions_found once the
\* stream has ended.
WorkerEOF_ResultFirst(w, code) ==
    /\ frontend = "tui"
    /\ w \in DOMAIN workers
    /\ workers[w].pc = "events"
    /\ code \in ExitCodes
    /\ workers' = [workers EXCEPT ![w].turn_exit = <<code>>, ![w].pc = "done"]
    /\ IF ExitError(code, ConvStderr) # NoError
       THEN /\ mq' = Append(mq, Msg("AgentError",
                                    ExcOf(ExitError(code, ConvStderr)).msg))
            /\ UNCHANGED plan_output
       ELSE IF Truthy(workers[w].final_result)
       THEN /\ plan_output' = Append(plan_output, workers[w].final_result)
            /\ mq' = Append(mq, Msg("AgentComplete", <<>>))
       ELSE IF workers[w].questions_found # <<>>
       THEN /\ mq' = Append(mq, Msg("AgentQuestion", workers[w].questions_found))
            /\ UNCHANGED plan_output
       ELSE /\ mq' = Append(mq, Msg("AgentError",
                       <<"Agent completed without producing a result">>))
            /\ UNCHANGED plan_output
    /\ UNCHANGED << frontend, session_id, invocations, conv_lines, planVars,
                    pending_questions, pending_answers, panel, status,
                    result_plan_dir >>
    /\ UNCHANGED << runnerVars, pairVars, pureVars >>

\* The process of worker w closes standard output and exits: run_claude raises on
\* a non-zero exit code (caught, posted as AgentError); otherwise the worker posts
\* the questions, or writes the plan and posts AgentComplete, or posts AgentError
\* for want of a result.
WorkerEOF(w, code) ==
    /\ frontend = "tui"
    /\ w \in DOMAIN workers
    /\ workers[w].pc = "events"
    /\ code \in ExitCodes
    /\ workers' = [workers EXCEPT ![w].turn_exit = <<code>>, ![w].pc = "done"]
    /\ IF ExitError(code, ConvStderr) # NoError
       THEN /\ mq' = Append(mq, Msg("AgentError",
                                    ExcOf(ExitError(code, ConvStderr)).msg))
            /\ UNCHANGED plan_output
       ELSE IF workers[w].questions_found # <<>>
       THEN /\ mq' = Append(mq, Msg("AgentQuestion", workers[w].questions_found))
            /\ UNCHANGED plan_output
       ELSE IF Truthy(workers[w].final_result)
       THEN /\ plan_output' = Append(plan_output, workers[w].final_result)
            /\ mq' = Append(mq, Msg("AgentComplete", <<>>))
       ELSE /\ mq' = Append(mq, Msg("AgentError",
                       <<"Agent completed without producing a result">>))
            /\ UNCHANGED plan_output
    /\ UNCHANGED << frontend, session_id, invocations, conv_lines, planVars,
                    pending_questions, pending_answers, panel, status,
                    result_plan_dir >>
    /\ UNCHANGED << runnerVars, pairVars, pureVars >>

\* The user presses a number key while the QuestionPanel has the focus:
\* action_select(key - 1) posts AnswerSelected with the label of that option of
\* the question at the head of the queue, if it has such an option.
KeyPress(key) ==
    /\ frontend = "tui"
    /\ panel
    /\ key \in Keys
    /\ pending_questions # <<>>
    /\ Len(SelectSeq(mq, LAMBDA m : m.kind = "AnswerSelected"))
         + Len(pending_answers) < MaxKeys
    /\ LET q == Head(pending_questions)
       IN  /\ 0 <= key - 1
           /\ key - 1 < Len(q.options)
           /\ mq' = Append(mq, Msg("AnswerSelected", <<q.options[key].label>>))
    /\ UNCHANGED << frontend, sharedVars, planVars, workers, pending_questions,
                    pending_answers, panel, status, result_plan_dir >>
    /\ UNCHANGED << runnerVars, pairVars, pureVars >>

\* on_agent_tool_use, on_agent_output: they change the tool area and the output log
\* only.
OnAgentOutput ==
    /\ frontend = "tui"
    /\ mq # <<>>
    /\ Head(mq).kind \in {"AgentToolUse", "AgentOutput"}
    /\ mq' = Tail(mq)
    /\ UNCHANGED << frontend, sharedVars, planVars, workers, pending_questions,
                    pending_answers, panel, status, result_plan_dir >>
    /\ UNCHANGED << runnerVars, pairVars, pureVars >>

\* on_agent_question, with _show_next_question
OnAgentQuestion ==
    /\ frontend = "tui"
    /\ mq # <<>>
    /\ Head(mq).kind = "AgentQuestion"
    /\ mq' = Tail(mq)
    /\ pending_questions' = Head(mq).body
    /\ pending_answers' = <<>>
    /\ panel' = TRUE
    /\ status' = "waiting"
    /\ UNCHANGED << frontend, sharedVars, planVars, workers, result_plan_dir >>
    /\ UNCHANGED << runnerVars, pairVars, pureVars >>

\* An on_answer_selected that starts the agent on the last answer alone.
OnAnswerSelected_LastOnly ==
    /\ frontend = "tui"
    /\ mq # <<>>
    /\ Head(mq).kind = "AnswerSelected"
    /\ mq' = Tail(mq)
    /\ IF pending_questions = <<>>
       THEN UNCHANGED << pending_questions, pending_answers, panel, status, workers >>
       ELSE /\ pending_questions' = Tail(pending_questions)
            /\ pending_answers' = Append(pending_answers, Head(mq).body)
            /\ IF pending_questions' # <<>>
               THEN /\ panel' = TRUE
                    /\ status' = "waiting"
                    /\ UNCHANGED workers
               ELSE /\ panel' = FALSE
                    /\ status' = "thinking"
                    /\ workers' = Append(workers, NewWorker(Head(mq).body))
    /\ UNCHANGED << frontend, sharedVars, planVars, result_plan_dir >>
    /\ UNCHANGED << runnerVars, pairVars, pureVars >>

\* An on_answer_selected without the early return: an answer that arrives on an
\* empty queue is recorded and starts the agent again.
OnAnswerSelected_NoGuard ==
    /\ frontend = "tui"
    /\ mq # <<>>
    /\ Head(mq).kind = "AnswerSelected"
    /\ mq' = Tail(mq)
    /\ pending_questions' = IF pending_questions = <<>> THEN <<>>
                            ELSE Tail(pending_questions)
    /\ pending_answers' = Append(pending_answers, Head(mq).body)
    /\ IF pending_questions' # <<>>
       THEN /\ panel' = TRUE
            /\ status' = "waiting"
            /\ UNCHANGED workers
       ELSE /\ panel' = FALSE
            /\ status' = "thinking"
            /\ workers' = Append(workers,
                            NewWorker(JoinTexts(pending_answers', <<"nl">>)))
    /\ UNCHANGED << frontend, sharedVars, planVars, result_plan_dir >>
    /\ UNCHANGED << runnerVars, pairVars, pureVars >>

\* on_answer_selected
OnAnswerSelected ==
    /\ frontend = "tui"
    /\ mq # <<>>
    /\ Head(mq).kind = "AnswerSelected"
    /\ mq' = Tail(mq)
    /\ IF pending_questions = <<>>
       THEN UNCHANGED << pending_questions, pending_answers, panel, status, workers >>
       ELSE /\ pending_questions' = Tail(pending_questions)
            /\ pending_answers' = Append(pending_answers, Head(mq).body)
            /\ IF pending_questions' # <<>>
               THEN /\ panel' = TRUE
                    /\ status' = "waiting"
                    /\ UNCHANGED workers
               ELSE /\ panel' = FALSE
                    /\ status' = "thinking"
                    /\ workers' = Append(workers,
                                    NewWorker(JoinTexts(pending_answers', <<"nl">>)))
    /\ UNCHANGED << frontend, sharedVars, planVars, result_plan_dir >>
    /\ UNCHANGED << runnerVars, pairVars, pureVars >>

\* on_agent_complete
OnAgentComplete ==
    /\ frontend = "tui"
    /\ mq # <<>>
    /\ Head(mq).kind = "AgentComplete"
    /\ mq' = Tail(mq)
    /\ status' = "done"
    /\ result_plan_dir' = TRUE
    /\ UNCHANGED << frontend, sharedVars, planVars, workers, pending_questions,
                    pending_answers, panel >>
    /\ UNCHANGED << runnerVars, pairVars, pureVars >>

\* on_agent_error
OnAgentError ==
    /\ frontend = "tui"
    /\ mq # <<>>
    /\ Head(mq).kind = "AgentError"
    /\ mq' = Tail(mq)
    /\ status' = "error"
    /\ UNCHANGED << frontend, sharedVars, planVars, workers, pending_questions,
                    pending_answers, panel, result_plan_dir >>
    /\ UNCHANGED << runnerVars, pairVars, pureVars >>

WorkerStep ==
    \/ \E w \in DOMAIN workers : WorkerInvoke(w)
    \/ \E w \in DOMAIN workers : \E raw \in ConvLines : WorkerLine(w, raw)
    \/ \E w \in DOMAIN workers : \E code \in ExitCodes : WorkerEOF(w, code)

UiStep ==
    \/ TuiMount
    \/ \E key \in Keys : KeyPress(key)
    \/ OnAgentOutput
    \/ OnAgentQuestion
    \/ OnAnswerSelected
    \/ OnAgentComplete
    \/ OnAgentError

TuiNext ==
    \/ WorkerStep
    \/ UiStep

ConvInit ==
    /\ frontend \in {"plan", "tui"}
    /\ ConvStart
    /\ debug_enabled = FALSE
    /\ command = "plan"
    /\ RunnerStart
    /\ PairIdle
    /\ PureIdle

ConvNext ==
    \/ PlanNext
    \/ TuiNext

ConvSpec == ConvInit /\ [][ConvNext]_vars

\* Some message of this kind is posted and not yet handled.
Posted(kind) == \E i \in DOMAIN mq : mq[i].kind = kind

\* ===================================== the two front ends on one script
\* run_plan is run on a script, then PlanTUI is run on the same script.  A script
\* fixes, turn by turn, the lines the process prints and its exit code; the user
\* picks the second option of every question, in run_plan by typing 2 and in the
\* TUI by pressing the key 2 once for each question shown.
PairLines == { <<"asstQ", "nl">>, <<"resOk", "nl">>, <<"sys1", "nl">> }

LineSeqs == UNION { [1..k -> PairLines] : k \in 0..MaxConvLines }

ScriptTurns == [lines : LineSeqs, exit : ExitCodes]

RECURSIVE TotalLines(_)
TotalLines(sc) ==
    IF sc = <<>> THEN 0 ELSE Len(Head(sc).lines) + TotalLines(Tail(sc))

PairScripts ==
    { sc \in UNION { [1..k -> ScriptTurns] : k \in 1..MaxTurns } :
         TotalLines(sc) <= MaxConvLines }

\* The option the user picks, as typed and as a key.
PickedText == <<"2">>
PickedKey == 2

PairInit ==
    /\ frontend = "plan"
    /\ ConvStart
    /\ debug_enabled = FALSE
    /\ RunnerStart
    /\ command = "plan"
    /\ script \in PairScripts
    /\ sync = NoOutcome
    /\ PureIdle

\* run_plan calls run_claude for the next turn of the script.
PairPlanInvoke ==
    /\ Len(invocations) < Len(script)
    /\ PlanInvoke

\* The process of the turn prints its next line.
PairPlanLine ==
    /\ invocations # <<>>
    /\ LET turn == script[Len(invocations)]
       IN  /\ Len(turn_lines) < Len(turn.lines)
           /\ PlanLine(turn.lines[Len(turn_lines) + 1])

\* The process of the turn has printed its lines and exits.
PairPlanEOF ==
    /\ invocations # <<>>
    /\ LET turn == script[Len(invocations)]
       IN  /\ Len(turn_lines) = Len(turn.lines)
           /\ PlanEOF(turn.exit)

\* The user types the pick at the prompt of the next question.
PairPlanAnswer ==
    /\ sync = NoOutcome
    /\ PlanAnswer(PickedText)

\* run_plan has returned or raised; run_plan_tui is started on the same script,
\* with a new PlanTUI.
PairSwitch ==
    /\ frontend = "plan"
    /\ p_pc \in {"done", "failed"}
    /\ sync = NoOutcome
    /\ sync' = [invocations |-> invocations, terminal |-> p_pc,
                output |-> plan_output]
    /\ frontend' = "tui"
    /\ session_id' = None
    /\ invocations' = <<>>
    /\ plan_output' = <<>>
    /\ conv_lines' = <<>>
    /\ p_pc' = "invoke"
    /\ turn_lines' = <<>>
    /\ turn_exit' = <<>>
    /\ questions_found' = <<>>
    /\ final_result' = NoText
    /\ current_prompt' = PromptText
    /\ answers' = <<>>
    /\ conv_error' = NoExc
    /\ UNCHANGED << tuiVars, script, pureVars >>
    /\ UNCHANGED runnerVars

PairTuiMount ==
    /\ sync # NoOutcome
    /\ TuiMount

PairWorkerInvoke ==
    /\ Len(invocations) < Len(script)
    /\ \E w \in DOMAIN workers : WorkerInvoke(w)

PairWorkerLine ==
    \E w \in DOMAIN workers :
        /\ invocations # <<>>
        /\ w = Len(invocations)
        /\ LET turn == script[w]
           IN  /\ Len(workers[w].turn_lines) < Len(turn.lines)
               /\ WorkerLine(w, turn.lines[Len(workers[w].turn_lines) + 1])

PairWorkerEOF ==
    \E w \in DOMAIN workers :
        /\ invocations # <<>>
        /\ w = Len(invocations)
        /\ LET turn == script[w]
           IN  /\ Len(workers[w].turn_lines) = Len(turn.lines)
               /\ WorkerEOF(w, turn.exit)

\* The user presses the key once for the question shown.
PairKeyPress ==
    /\ ~Posted("AnswerSelected")
    /\ KeyPress(PickedKey)

PairNext ==
    \/ PairPlanInvoke
    \/ PairPlanLine
    \/ PairPlanEOF
    \/ PairPlanAnswer
    \/ PairSwitch
    \/ PairTuiMount
    \/ PairWorkerInvoke
    \/ PairWorkerLine
    \/ PairWorkerEOF
    \/ PairKeyPress
    \/ OnAgentOutput
    \/ OnAgentQuestion
    \/ OnAnswerSelected
    \/ OnAgentComplete
    \/ OnAgentError

PairSpec == PairInit /\ [][PairNext]_vars

\* ========================================== the conversation loops: claims
Last(seq) == seq[Len(seq)]

\* The event run_claude yields for a line that decodes into a record.
EventOfLine(raw) == ClaudeEvent(JsonLoads(Strip(raw)).v)

\* The non-empty session id the event of a line carries, if the line yields an
\* event and the event carries one.
SidOfLine(raw) ==
    IF LineResult(raw) = "yield" /\ StrTruthy(event_session_id(EventOfLine(raw)))
    THEN event_session_id(EventOfLine(raw))
    ELSE None

\* The session id of the last of these lines that carries one.
RECURSIVE LatestSessionId(_)
LatestSessionId(lines) ==
    IF lines = <<>> THEN None
    ELSE IF SidOfLine(Last(lines)) # None THEN SidOfLine(Last(lines))
    ELSE LatestSessionId(SubSeq(lines, 1, Len(lines) - 1))

\* The session id a command line resumes: the argument of a trailing --resume.
ResumeOf(cmd) ==
    IF Len(cmd) >= 2 /\ cmd[Len(cmd) - 1] = <<"--resume">>
    THEN Last(cmd)[1]
    ELSE None

\* These lines hold a well-formed result event that is no error.
HasOkResult(lines) ==
    \E i \in DOMAIN lines :
        /\ LineResult(lines[i]) = "yield"
        /\ is_result(EventOfLine(lines[i]))
        /\ ~is_error(EventOfLine(lines[i]))

NonZero(exit) == exit # <<>> /\ exit # <<0>>

\* The turn run_plan is in has streamed a good result and its process has exited
\* non-zero.
PlanFatalExit ==
    frontend = "plan" /\ NonZero(turn_exit) /\ HasOkResult(turn_lines)

\* The same, for the turn of worker w of the TUI.
TuiFatalExit(w) ==
    /\ frontend = "tui"
    /\ NonZero(workers[w].turn_exit)
    /\ HasOkResult(workers[w].turn_lines)

\* C7: in both front ends a turn that streamed a good result event (and possibly
\* questions) and whose process then exits non-zero fails the conversation:
\* run_plan has raised the exit error, the TUI has posted or shown the error; no
\* plan is written, Completed is not reached, no later turn starts and none of
\* the turn's questions is shown.
C7_NonZeroExitFatal ==
    /\ PlanFatalExit =>
          /\ p_pc = "failed"
          /\ conv_error = ExcOf(ExitError(turn_exit[1], ConvStderr))
          /\ plan_output = <<>>
    /\ \A w \in DOMAIN workers :
          TuiFatalExit(w) =>
             /\ status = "error" \/ Posted("AgentError")
             /\ status # "done"
             /\ ~result_plan_dir
             /\ plan_output = <<>>
             /\ ~Posted("AgentComplete")
             /\ ~Posted("AgentQuestion")
             /\ pending_questions = <<>>
             /\ ~panel
             /\ w = Len(workers)

C7_Witness ==
    /\ frontend = "tui"
    /\ status = "error"
    /\ \E w \in DOMAIN workers :
          /\ TuiFatalExit(w)
          /\ workers[w].questions_found # <<>>

RECURSIVE TurnQuestions(_)
TurnQuestions(lines) ==
    IF lines = <<>> THEN <<>>
    ELSE LET text == IF LineResult(Head(lines)) = "yield"
                     THEN text_content(EventOfLine(Head(lines)))
                     ELSE NoText
         IN  (IF Truthy(text) THEN detect_questions(text).questions ELSE <<>>)
             \o TurnQuestions(Tail(lines))

\* These lines hold a result event.
HasResult(lines) ==
    \E i \in DOMAIN lines :
        LineResult(lines[i]) = "yield" /\ is_result(EventOfLine(lines[i]))

\* The result text of the last result event of these lines.
RECURSIVE LastResultText(_)
LastResultText(lines) ==
    IF lines = <<>> THEN NoText
    ELSE IF LineResult(Last(lines)) = "yield" /\ is_result(EventOfLine(Last(lines)))
    THEN result_text(EventOfLine(Last(lines)))
    ELSE LastResultText(SubSeq(lines, 1, Len(lines) - 1))

\* The message of the failure for want of a result.
NoResultMsg == <<"Agent completed without producing a result">>

\* The TUI has the failure with this message posted, or has shown a failure.
TuiFailedWith(msg) ==
    \/ status = "error"
    \/ \E i \in DOMAIN mq : mq[i] = Msg("AgentError", msg)

\* The TUI has written this plan and has shown, or is about to show, completion.
TuiCompletedWith(text) ==
    /\ plan_output = <<text>>
    /\ status = "done" \/ Posted("AgentComplete")

\* The turn run_plan is in has ended with exit code 0, having streamed a result
\* that is no error, and no question.
PlanCleanResult ==
    /\ frontend = "plan"
    /\ turn_exit = <<0>>
    /\ HasOkResult(turn_lines)
    /\ TurnQuestions(turn_lines) = <<>>

TuiCleanResult(w) ==
    /\ frontend = "tui"
    /\ workers[w].turn_exit = <<0>>
    /\ HasOkResult(workers[w].turn_lines)
    /\ TurnQuestions(workers[w].turn_lines) = <<>>

\* C11: a turn that streams a result event that is no error and no question, and
\* whose process exits 0, completes the conversation with the text of that result
\* as the plan written, whatever the text (the empty text included).
C11_ResultCompletes ==
    /\ PlanCleanResult =>
          /\ p_pc = "done"
          /\ plan_output = <<LastResultText(turn_lines)>>
    /\ \A w \in DOMAIN workers :
          TuiCleanResult(w) => TuiCompletedWith(LastResultText(workers[w].turn_lines))

\* The turn run_plan is in has ended with exit code 0, having streamed no result
\* event and no question.
PlanEmptyTurn ==
    /\ frontend = "plan"
    /\ turn_exit = <<0>>
    /\ ~HasResult(turn_lines)
    /\ TurnQuestions(turn_lines) = <<>>

TuiEmptyTurn(w) ==
    /\ frontend = "tui"
    /\ workers[w].turn_exit = <<0>>
    /\ ~HasResult(workers[w].turn_lines)
    /\ TurnQuestions(workers[w].turn_lines) = <<>>

\* C12: a turn, the first or a later one, whose stream ends with exit code 0
\* without a result event and without a question fails the conversation for want
\* of a result and never completes it, whatever earlier turns produced.
C12_NoResultFails ==
    /\ PlanEmptyTurn =>
          /\ p_pc = "failed"
          /\ conv_error = [kind |-> "RuntimeError", msg |-> NoResultMsg]
          /\ plan_output = <<>>
    /\ \A w \in DOMAIN workers :
          TuiEmptyTurn(w) =>
             /\ TuiFailedWith(NoResultMsg)
             /\ plan_output = <<>>
             /\ status # "done"
             /\ ~Posted("AgentComplete")

\* These lines end with a result event that has its error flag set.
EndsWithErrorResult(lines) ==
    /\ lines # <<>>
    /\ LineResult(Last(lines)) = "yield"
    /\ is_error(EventOfLine(Last(lines)))

AnswerSeparator == IF frontend = "plan" THEN <<";", "ws">> ELSE <<"nl">>

\* The workers of the TUI whose turn ended with exit code 0 and with questions.
AskingWorkers ==
    { w \in DOMAIN workers :
         workers[w].turn_exit = <<0>> /\ TurnQuestions(workers[w].turn_lines) # <<>> }

\* C14: a turn that ends with exit code 0, without an error result and with
\* questions, leads to AwaitingAnswers even when it also streamed a result; the
\* queue holds the questions of the turn in detection order; once all are answered
\* exactly one new turn starts, on the joined answers and the stored session id.
C14_QuestionsThenOneTurn ==
    /\ [](/\ (frontend = "plan" /\ turn_exit = <<0>>
                 /\ TurnQuestions(turn_lines) # <<>>) =>
                /\ p_pc \in {"ask", "invoke"}
                /\ questions_found = TurnQuestions(turn_lines)
                /\ plan_output = <<>>
                /\ p_pc = "invoke" =>
                      /\ Len(answers) = Len(questions_found)
                      /\ current_prompt = JoinTexts(answers, AnswerSeparator)
          /\ frontend = "tui" => Len(workers) <= 1 + Cardinality(AskingWorkers))
    /\ [][ /\ (frontend = "plan" /\ invocations' # invocations /\ invocations # <<>>)
                => /\ turn_exit = <<0>>
                   /\ TurnQuestions(turn_lines) # <<>>
                   /\ Last(invocations')[3] = JoinTexts(answers, AnswerSeparator)
                   /\ Len(answers) = Len(TurnQuestions(turn_lines))
                   /\ ResumeOf(Last(invocations')) = session_id
                   /\ turn_exit' = <<>>
           /\ \A w \in DOMAIN workers :
                (workers[w].turn_exit = <<>> /\ workers'[w].turn_exit = <<0>>
                    /\ TurnQuestions(workers[w].turn_lines) # <<>>)
                => /\ mq' = Append(mq, Msg("AgentQuestion",
                                          TurnQuestions(workers[w].turn_lines)))
                   /\ UNCHANGED plan_output
           /\ (frontend = "tui" /\ mq # <<>> /\ Head(mq).kind = "AgentQuestion"
                  /\ mq' = Tail(mq))
                => /\ pending_questions' = Head(mq).body
                   /\ pending_answers' = <<>>
                   /\ panel'
           /\ (Len(workers') > Len(workers) /\ workers # <<>>)
                => /\ Len(workers') = Len(workers) + 1
                   /\ Len(workers) \in AskingWorkers
                   /\ pending_questions # <<>> /\ pending_questions' = <<>>
                   /\ Len(pending_answers')
                         = Len(TurnQuestions(Last(workers).turn_lines))
                   /\ Last(workers').prompt
                         = JoinTexts(pending_answers', AnswerSeparator)
           /\ (frontend = "tui" /\ invocations' # invocations /\ invocations # <<>>)
                => /\ Last(invocations')[3] = workers[Len(invocations')].prompt
                   /\ ResumeOf(Last(invocations')) = session_id
         ]_vars

C14_Witness ==
    /\ frontend = "plan"
    /\ conv_lines = << <<"asstQ2", "nl">>, <<"resOk", "nl">> >>
    /\ Len(invocations) = 2
    /\ invocations[2][3] = <<"D", ";", "ws", "custom">>

\* The workers of the TUI that have not yet posted their end-of-turn message.
RunningWorkers == { w \in DOMAIN workers : workers[w].pc # "done" }

\* C15: at most one run_claude is in flight in a conversation.  In the TUI at
\* most one worker has not yet posted its end-of-turn message, a worker is
\* started only when every earlier one has, and a worker calls run_claude only
\* when it is the one started last; run_plan calls run_claude again only after the
\* stream of the turn before has ended.
C15_OneInFlight ==
    /\ [](Cardinality(RunningWorkers) <= 1)
    /\ [][ /\ Len(workers') > Len(workers) => RunningWorkers = {}
           /\ (frontend = "tui" /\ invocations' # invocations)
                => /\ Len(invocations') = Len(workers)
                   /\ RunningWorkers = {Len(workers)}
           /\ (frontend = "plan" /\ invocations' # invocations /\ invocations # <<>>)
                => p_pc = "invoke" /\ turn_exit # <<>>
         ]_vars

C15_Witness ==
    /\ frontend = "tui"
    /\ Len(workers) = 2
    /\ workers[1].pc = "done"
    /\ workers[2].pc = "events"
    /\ Posted("AnswerSelected")

\* The conversation has met a fatal condition: run_plan has raised, the TUI has
\* posted or shown an error.
Fatal ==
    \/ frontend = "plan" /\ p_pc = "failed"
    \/ frontend = "tui" /\ (status = "error" \/ Posted("AgentError"))

Completed ==
    \/ frontend = "plan" /\ p_pc = "done"
    \/ frontend = "tui" /\ (status = "done" \/ result_plan_dir)

\* C16: after a fatal condition the conversation is terminal in both front ends:
\* it stays failed, no run_claude is called and no worker started, no question is
\* posted, shown or asked, no plan is written and Completed is not reached.
C16_FatalIsTerminal ==
    /\ [](Fatal => /\ RunningWorkers = {}
                   /\ ~panel
                   /\ pending_questions = <<>>
                   /\ ~Posted("AgentQuestion")
                   /\ ~Posted("AgentComplete")
                   /\ ~Completed)
    /\ [][Fatal => /\ Fatal'
                   /\ UNCHANGED << invocations, plan_output, p_pc, workers, panel,
                                   pending_questions >>
         ]_vars

C16_Witness ==
    /\ frontend = "tui"
    /\ status = "error"
    /\ Len(workers) = 2
    /\ workers[2].turn_exit = <<0>>
    /\ mq = <<>>

\* C17: on the same script and the same picks the TUI makes the calls of
\* run_claude that run_plan made, each with the same command line (prompt and
\* session id), and ends as run_plan ended: completed with the same plan written,
\* or failed.
C17_FrontEndsAgree ==
    (frontend = "tui" /\ sync # NoOutcome) =>
        /\ \A i \in DOMAIN invocations :
              /\ i <= Len(sync.invocations)
              /\ invocations[i] = sync.invocations[i]
        /\ status \in {"done", "error"} =>
              /\ Len(invocations) = Len(sync.invocations)
              /\ (status = "done") <=> (sync.terminal = "done")
              /\ plan_output = sync.output

\* The answers prompt_user_for_answer can record for a question.
PlanAnswersTo(q) == { TypedAnswer(q, choice) : choice \in TypedInputs }

\* C18: the input of a turn that follows questions is the answers joined with the
\* front end's separator, one answer for each question of the turn before, in
\* the order of the questions.  In the TUI, while questions are pending, the
\* answers recorded and the questions pending add up to the posted batch, the
\* pending ones being its tail.
C18_OneAnswerPerQuestion ==
    /\ []((frontend = "tui" /\ pending_questions # <<>>) =>
            LET batch == TurnQuestions(Last(workers).turn_lines)
            IN  /\ Len(pending_answers) + Len(pending_questions) = Len(batch)
                /\ pending_questions
                      = SubSeq(batch, Len(pending_answers) + 1, Len(batch)))
    /\ []((frontend = "plan" /\ p_pc = "ask") =>
            LET batch == TurnQuestions(turn_lines)
            IN  /\ Len(answers) < Len(batch)
                /\ \A i \in DOMAIN answers : answers[i] \in PlanAnswersTo(batch[i]))
    /\ [][ /\ (frontend = "plan" /\ p_pc = "ask" /\ p_pc' # "ask")
                => LET batch == TurnQuestions(turn_lines)
                   IN  /\ p_pc' = "invoke"
                       /\ Len(answers') = Len(batch)
                       /\ \A i \in DOMAIN batch : answers'[i] \in PlanAnswersTo(batch[i])
                       /\ current_prompt' = JoinTexts(answers', AnswerSeparator)
           /\ (Len(workers') > Len(workers) /\ workers # <<>>)
                => LET batch == TurnQuestions(Last(workers).turn_lines)
                   IN  /\ Len(pending_answers') = Len(batch)
                       /\ Last(workers').prompt
                             = JoinTexts(pending_answers', AnswerSeparator)
         ]_vars

C18_Witness ==
    /\ frontend = "tui"
    /\ Len(workers) = 2
    /\ workers[2].prompt = <<"A", "nl", "B">>
    /\ Len(TurnQuestions(workers[1].turn_lines)) = 2

\* The labels a key can select for a question.
Labels(q) == { q.options[i].label : i \in DOMAIN q.options }

\* The step of on_answer_selected that records an answer.
RecordsAnswer ==
    /\ frontend = "tui"
    /\ mq # <<>>
    /\ Head(mq).kind = "AnswerSelected"
    /\ pending_questions # <<>>
    /\ pending_answers' = Append(pending_answers, Head(mq).body)

\* C19: in the TUI every answer that is recorded is a label of the question it
\* is recorded for, the head of the pending queue, whatever the interleaving of
\* key presses and message handling.
C19_AnswerIsForHeadQuestion ==
    [][ RecordsAnswer => \E l \in Labels(Head(pending_questions)) :
                            Head(mq).body = <<l>> ]_vars

\* The keys QuestionPanel accepts for a question: action_select posts an answer
\* only for an index inside the options.
AnsweringKeys(q) == { key \in Keys : 0 <= key - 1 /\ key - 1 < Len(q.options) }

\* C20: a question that waits for its answer can be answered, in both front
\* ends: run_plan accepts some typed input for it, and the TUI's panel accepts
\* some key for the question at the head of the pending queue.
C20_QuestionAnswerable ==
    /\ (frontend = "plan" /\ p_pc = "ask")
          => PlanAnswersTo(TurnQuestions(turn_lines)[Len(answers) + 1]) # {}
    /\ (frontend = "tui" /\ panel /\ pending_questions # <<>>)
          => AnsweringKeys(Head(pending_questions)) # {}

\* A step of a background worker running _run_agent: the record of an existing
\* worker changes (on_mount and on_answer_selected only append a new one).
IsWorkerStep ==
    /\ frontend = "tui"
    /\ Len(workers') = Len(workers)
    /\ workers' # workers

\* C21: in the TUI a step of the background worker changes no field of the
\* application object (_session_id, _pending_questions, _pending_answers, the
\* question panel, the status, result_plan_dir) and writes no plan file; it only
\* posts messages.
C21_WorkerOnlyPosts ==
    [][ IsWorkerStep =>
          UNCHANGED << session_id, pending_questions, pending_answers, panel,
                       status, result_plan_dir, plan_output >> ]_vars

\* ============================================== the functions on their own
\* detect_questions, ClaudeEvent.text_content, the command line of run_claude,
\* build_prompt, prompt_user_for_answer and _expand_env_vars are functions of
\* their arguments.  Each is called once on arguments drawn from the sets below;
\* pure_out is <<>> before the call and holds the outcome after it.

\* Number of pieces (markers and plain words) of a text given to detect_questions.
MaxPieces == 2

\* The payload tokens of the markers: the five JSON objects above, a JSON number
\* and a token that is no JSON.
MarkerPayloads == {"pq1", "pq2", "pqGap", "pqNoList", "pqNoDict", "pqOther",
                   "num", "junk"}

\* The pieces of a text: a plain word, a marker, a marker that is never closed.
TextPieces ==
    { <<"pick">>, <<"qopen", "pq1">> }
    \cup { <<"qopen", tok, "qclose">> : tok \in MarkerPayloads }

DetectInputs ==
    { Flatten(ps) : ps \in UNION { [1..k -> TextPieces] : k \in 0..MaxPieces } }

Called(fn) == pure_fn = fn /\ pure_out # <<>>

CallDetectQuestions ==
    /\ pure_fn = "detect_questions"
    /\ pure_out = <<>>
    /\ pure_out' = << detect_questions(pure_in) >>
    /\ UNCHANGED << pure_fn, pure_in >>
    /\ UNCHANGED << runnerVars, convVars, pairVars >>

\* Number of content blocks of a message given to text_content.
MaxBlocks == 2

\* The content blocks of a message: two texts, an empty text, a tool use and a
\* block without a type.
ContentBlocks ==
    { [type |-> "text", text |-> <<"hello">>],
      [type |-> "text", text |-> <<"bye">>],
      [type |-> "text", text |-> <<>>],
      [type |-> "tool_use", name |-> "Bash"],
      [name |-> "Read"] }

Contents == UNION { [1..k -> ContentBlocks] : k \in 0..MaxBlocks }

\* The decoded records text_content is called on: a record with a message, of an
\* assistant, of a user or without a type, and an assistant record without a
\* message.
TextContentInputs ==
    { [type |-> ty, message |-> [content |-> c]] :
          ty \in {"assistant", "user"}, c \in Contents }
    \cup { [message |-> [content |-> c]] : c \in Contents }
    \cup { [type |-> "assistant"] }

CallTextContent ==
    /\ pure_fn = "text_content"
    /\ pure_out = <<>>
    /\ pure_out' = << text_content(ClaudeEvent(pure_in)) >>
    /\ UNCHANGED << pure_fn, pure_in >>
    /\ UNCHANGED << runnerVars, convVars, pairVars >>

\* The agent configurations run_claude is called with: with and without
\* arguments, tools and the permission switch.
AgentConfigs ==
    [ command : { DefaultAgent.command },
      args : { DefaultAgent.args, <<>> },
      allowed_tools : { <<>>, << <<"Bash">> >>, << <<"Bash">>, <<"Read">> >> },
      dangerously_skip_permissions : BOOLEAN ]

\* The arguments of run_claude the command line depends on.
BuildCmdInputs ==
    [ prompt : { PromptText, <<"B">> },
      agent : AgentConfigs,
      session_id : { None, "", "s1" } ]

\* run_claude builds cmd.
CallBuildCmd ==
    /\ pure_fn = "run_claude"
    /\ pure_out = <<>>
    /\ pure_out' = << BuildCmd(pure_in.prompt, pure_in.agent, pure_in.session_id) >>
    /\ UNCHANGED << pure_fn, pure_in >>
    /\ UNCHANGED << runnerVars, convVars, pairVars >>

\* The parts of build_prompt's text around its arguments.
KnowledgeHeader == <<"nl", "nl", "---", "nl", "nl", "# Knowledge Base", "nl">>
SpecHeader == <<"nl", "---", "nl", "nl", "# Specification to Plan", "nl", "nl">>

\* f"\n## {filename}\n{content}\n" for the entries of knowledge_contents, in the
\* order of the mapping.
RECURSIVE KnowledgeParts(_)
KnowledgeParts(knowledge) ==
    IF knowledge = <<>> THEN <<>>
    ELSE << <<"nl", "## ">> \o Head(knowledge).filename \o <<"nl">>
            \o Head(knowledge).content \o <<"nl">> >>
         \o KnowledgeParts(Tail(knowledge))

\* A build_prompt that puts the specification before the knowledge base.
build_prompt_SpecFirst(spec_content, agent_prompt, knowledge_contents) ==
    JoinTexts(<< agent_prompt, SpecHeader \o spec_content, KnowledgeHeader >>
              \o KnowledgeParts(knowledge_contents),
              <<"nl">>)

\* build_prompt(spec_content, agent_prompt, knowledge_contents); the mapping is a
\* sequence of entries with distinct file names, in insertion order.
build_prompt(spec_content, agent_prompt, knowledge_contents) ==
    JoinTexts(<< agent_prompt, KnowledgeHeader >>
              \o KnowledgeParts(knowledge_contents)
              \o << SpecHeader \o spec_content >>,
              <<"nl">>)

KnowledgeEntries ==
    [ filename : { <<"k.md">>, <<"j.md">> },
      content : { <<"KNOWLEDGE">>, <<"SPEC">>, <<>> } ]

\* The knowledge maps: no entry, one entry, or two entries with different names.
KnowledgeMaps ==
    { <<>> }
    \cup { <<e>> : e \in KnowledgeEntries }
    \cup { p \in KnowledgeEntries \X KnowledgeEntries :
               p[1].filename # p[2].filename }

BuildPromptInputs ==
    [ spec_content : { <<"SPEC">>, <<>> },
      agent_prompt : { <<"AGENT">>, <<"SPEC">>, <<>> },
      knowledge_contents : KnowledgeMaps ]

CallBuildPrompt ==
    /\ pure_fn = "build_prompt"
    /\ pure_out = <<>>
    /\ pure_out' = << build_prompt(pure_in.spec_content, pure_in.agent_prompt,
                                   pure_in.knowledge_contents) >>
    /\ UNCHANGED << pure_fn, pure_in >>
    /\ UNCHANGED << runnerVars, convVars, pairVars >>

\* Number of questions given to prompt_user_for_answer.
MaxAsked == 2

\* The questions of the markers pq1 and pq2.
AskedQuestions ==
    { Question(PayloadTexts.pq1.v.questions.v[1].v),
      Question(PayloadTexts.pq2.v.questions.v[1].v),
      Question(PayloadTexts.pq2.v.questions.v[2].v) }

\* What the user types at a prompt: numbers in and out of the range of the
\* options, and a word.
TypedChoices == TypedInputs \cup { <<"0">>, <<"1">> }

\* The questions asked and what the user types at each prompt.
PromptInputs ==
    UNION { [ questions : [1..k -> AskedQuestions],
              typed : [1..k -> TypedChoices] ] : k \in 1..MaxAsked }

\* prompt_user_for_answer(questions), the user typing typed[i] at the prompt of
\* question i.
PromptUserForAnswer(questions, typed) ==
    JoinTexts([i \in DOMAIN questions |-> TypedAnswer(questions[i], typed[i])],
              <<";", "ws">>)

CallPromptUser ==
    /\ pure_fn = "prompt_user_for_answer"
    /\ pure_out = <<>>
    /\ pure_out' = << PromptUserForAnswer(pure_in.questions, pure_in.typed) >>
    /\ UNCHANGED << pure_fn, pure_in >>
    /\ UNCHANGED << runnerVars, convVars, pairVars >>

\* A value of a configuration file is a node [t, v]: a string is a node "str" over
\* its characters, a list a node "list" over its items, a mapping a node "dict"
\* over its entries, an entry being a node named by its key over its value.
Node(t, v) == [t |-> t, v |-> v]
CStr(chars) == Node("str", [i \in DOMAIN chars |-> Node(chars[i], <<>>)])
CInt == Node("int", <<>>)
CList(items) == Node("list", items)
CDict(entries) == Node("dict", entries)
Chars(str) == [i \in DOMAIN str.v |-> str.v[i].t]

\* Nesting depth of the mappings and lists of a configuration file.
MaxDepth == 2

\* The strings of a configuration file: ${A}, ${B}, ${}A}, p and ${A .
ConfigStrings ==
    { <<"$", "{", "A", "}">>, <<"$", "{", "B", "}">>, <<"$", "{", "}", "A", "}">>,
      <<"p">>, <<"$", "{", "A">> }

\* What yaml.safe_load returns: a string or a number, or a list or a mapping of
\* such values, nested at most depth deep.
RECURSIVE ConfigData(_)
ConfigData(depth) ==
    IF depth = 0
    THEN { CStr(chars) : chars \in ConfigStrings } \cup { CInt }
    ELSE LET sub == ConfigData(depth - 1)
         IN  sub \cup { CList(<<>>) }
                 \cup { CList(<<x>>) : x \in sub }
                 \cup { CDict(<< Node("key", <<x>>) >>) : x \in sub }

\* The names the environment may define, a name that begins with } included.
EnvNames == { <<"A">>, <<"}", "A">> }

\* os.environ, as the set of the names that are set.
Environments == SUBSET EnvNames

\* The value of the environment variable name where it is set.
EnvValue(name) == <<"value of">> \o name

StartsWith(chars, prefix) ==
    Len(chars) >= Len(prefix) /\ SubSeq(chars, 1, Len(prefix)) = prefix

EndsWith(chars, suffix) ==
    Len(chars) >= Len(suffix)
    /\ SubSeq(chars, Len(chars) - Len(suffix) + 1, Len(chars)) = suffix

\* SpektacularConfig._expand_env_vars(data) in the environment env; data[2:-1] is
\* the string without its first two characters and its last one.
RECURSIVE ExpandEnvVars(_, _)
ExpandEnvVars(data, env) ==
    IF data.t = "dict"
    THEN CDict([i \in DOMAIN data.v |->
                   Node(data.v[i].t, << ExpandEnvVars(data.v[i].v[1], env) >>)])
    ELSE IF data.t = "list"
    THEN CList([i \in DOMAIN data.v |-> ExpandEnvVars(data.v[i], env)])
    ELSE IF /\ data.t = "str"
            /\ StartsWith(Chars(data), <<"$", "{", "}">>)
            /\ EndsWith(Chars(data), <<"}">>)
    THEN LET env_var == SubSeq(Chars(data), 3, Len(Chars(data)) - 1)
         IN  IF env_var \in env THEN CStr(EnvValue(env_var)) ELSE data
    ELSE data

ExpandInputs == [ data : ConfigData(MaxDepth), env : Environments ]

\* from_yaml_file: data = cls._expand_env_vars(data)
CallExpandEnvVars ==
    /\ pure_fn = "_expand_env_vars"
    /\ pure_out = <<>>
    /\ pure_out' = << ExpandEnvVars(pure_in.data, pure_in.env) >>
    /\ UNCHANGED << pure_fn, pure_in >>
    /\ UNCHANGED << runnerVars, convVars, pairVars >>

PureInit ==
    /\ frontend = "none"
    /\ ConvStart
    /\ debug_enabled = FALSE
    /\ command = "plan"
    /\ RunnerStart
    /\ PairIdle
    /\ pure_out = <<>>
    /\ \/ pure_fn = "detect_questions" /\ pure_in \in DetectInputs
       \/ pure_fn = "text_content" /\ pure_in \in TextContentInputs
       \/ pure_fn = "run_claude" /\ pure_in \in BuildCmdInputs
       \/ pure_fn = "build_prompt" /\ pure_in \in BuildPromptInputs
       \/ pure_fn = "prompt_user_for_answer" /\ pure_in \in PromptInputs
       \/ pure_fn = "_expand_env_vars" /\ pure_in \in ExpandInputs

PureNext ==
    \/ CallDetectQuestions
    \/ CallTextContent
    \/ CallBuildCmd
    \/ CallBuildPrompt
    \/ CallPromptUser
    \/ CallExpandEnvVars

PureSpec == PureInit /\ [][PureNext]_vars

\* ----------------------------------------------- claims on detect_questions
\* C22: detect_questions never fails: whatever the text, it returns a list and
\* raises nothing.
C22_DetectNeverRaises ==
    Called("detect_questions") => pure_out[1].raised = None

\* The payload of a marker decodes to an object whose "questions", if present, is
\* a list of objects.
WellShaped(payload) ==
    LET data == JsonLoads(payload)
    IN  /\ data.t = "dict"
        /\ LET qs == DictGet(data.v, "questions", JList(<<>>))
           IN  /\ qs.t = "list"
               /\ \A i \in DOMAIN qs.v : qs.v[i].t = "dict"

\* The question objects of a well-shaped payload that have the required field, in
\* list order, as descriptors.
ValidQuestions(payload) ==
    LET qs == DictGet(JsonLoads(payload).v, "questions", JList(<<>>)).v
        ok == SelectSeq(qs, LAMBDA q : "question" \in DOMAIN q.v)
    IN  [i \in DOMAIN ok |-> Question(ok[i].v)]

Range(f) == { f[i] : i \in DOMAIN f }

\* C23: a question object without the "question" field removes only itself: when
\* every payload of the text is either no JSON or an object with a list of
\* question objects, every question object that has the field is returned,
\* whether it stands before or after a bad one and whatever the other payloads.
C23_BadEntryDroppedAlone ==
    Called("detect_questions") =>
        LET matches == QuestionMatches(pure_in, 1)
        IN  (\A i \in DOMAIN matches :
                 JsonLoads(matches[i]).t = "JSONDecodeError" \/ WellShaped(matches[i]))
            => \A i \in DOMAIN matches :
                   WellShaped(matches[i])
                   => Range(ValidQuestions(matches[i]))
                          \subseteq Range(pure_out[1].questions)

\* The descriptors of the markers of a text, in source order: those of a
\* well-shaped payload, none for any other payload.
RECURSIVE MarkerQuestions(_)
MarkerQuestions(matches) ==
    IF matches = <<>> THEN <<>>
    ELSE (IF WellShaped(Head(matches)) THEN ValidQuestions(Head(matches)) ELSE <<>>)
         \o MarkerQuestions(Tail(matches))

\* C24: detect_questions returns the questions of all markers of the text, in
\* source order of the markers and in list order within a marker; a marker whose
\* payload is no JSON or has not the shape of a question list adds nothing and
\* changes nothing for the others.
C24_AllMarkersInOrder ==
    Called("detect_questions") =>
        /\ pure_out[1].raised = None
        /\ pure_out[1].questions = MarkerQuestions(QuestionMatches(pure_in, 1))

\* -------------------------------------------------- claim on text_content
\* The content blocks of a decoded record.
BlocksOf(data) ==
    IF "message" \in DOMAIN data THEN data.message.content ELSE <<>>

\* The blocks tagged "text" among the content blocks, in block order.
TextTagged(content) ==
    SelectSeq(content, LAMBDA b : "type" \in DOMAIN b /\ b.type = "text")

\* The texts with a newline between each two neighbours, built from the right.
RECURSIVE NewlineJoined(_)
NewlineJoined(texts) ==
    IF texts = <<>> THEN <<>>
    ELSE IF Len(texts) = 1 THEN texts[1]
    ELSE NewlineJoined(SubSeq(texts, 1, Len(texts) - 1))
         \o <<"nl">> \o texts[Len(texts)]

\* C25: text_content of an assistant event is the texts of its blocks tagged
\* "text", in block order, joined with newlines, blocks of other types left out;
\* it is None for an event that is no assistant event and for an assistant event
\* without a text block.
C25_TextContent ==
    Called("text_content") =>
        LET tagged == TextTagged(BlocksOf(pure_in))
        IN  IF "type" \in DOMAIN pure_in /\ pure_in.type = "assistant"
               /\ tagged # <<>>
            THEN pure_out[1] = NewlineJoined([i \in DOMAIN tagged |-> tagged[i].text])
            ELSE pure_out[1] = NoText

C25_Witness ==
    /\ Called("text_content")
    /\ pure_in = [type |-> "assistant", message |-> [content |-> <<
                     [type |-> "text", text |-> <<"hello">>],
                     [type |-> "text", text |-> <<"bye">>] >>]]
    /\ pure_out[1] = <<"hello", "nl", "bye">>

\* ---------------------------------------- claim on run_claude's command line
\* Position of the first argument equal to arg in a command line, 0 if none.
RECURSIVE ArgPos(_, _, _)
ArgPos(cmd, arg, i) ==
    IF i > Len(cmd) THEN 0
    ELSE IF cmd[i] = arg THEN i
    ELSE ArgPos(cmd, arg, i + 1)

AllowFlag == <<"--allowedTools">>
ResumeFlag == <<"--resume">>
BypassFlag == <<"--dangerously-skip-permissions">>

\* Which optional flags a command line carries, and with which values.
FlagsAsConfigured(cmd, in, resumes) ==
    /\ cmd[1] = in.agent.command
    /\ ArgPos(cmd, in.prompt, 1) > 0
    /\ (ArgPos(cmd, AllowFlag, 1) > 0) = (in.agent.allowed_tools # <<>>)
    /\ ArgPos(cmd, AllowFlag, 1) > 0
          => cmd[ArgPos(cmd, AllowFlag, 1) + 1]
                = JoinTexts(in.agent.allowed_tools, <<",">>)
    /\ (ArgPos(cmd, BypassFlag, 1) > 0) = in.agent.dangerously_skip_permissions
    /\ (ArgPos(cmd, ResumeFlag, 1) > 0) = resumes
    /\ ArgPos(cmd, ResumeFlag, 1) > 0
          => cmd[ArgPos(cmd, ResumeFlag, 1) + 1] = << in.session_id >>

\* Argument a, where present, stands before argument b, where present.
Before(cmd, a, b) ==
    (ArgPos(cmd, a, 1) > 0 /\ ArgPos(cmd, b, 1) > 0)
        => ArgPos(cmd, a, 1) < ArgPos(cmd, b, 1)

\* C26 as claimed: the command line is the executable, the fixed flag -p, the
\* input text, then the allow-list flag if tools are configured, then the resume
\* flag with the id if a session id is supplied, then the permission-bypass flag
\* if configured; the resume flag is there exactly when a session id is supplied
\* (an empty id counting as none).
C26_CmdOrderAsClaimed ==
    Called("run_claude") =>
        LET cmd == pure_out[1]
        IN  /\ FlagsAsConfigured(cmd, pure_in, pure_in.session_id \notin {None, ""})
            /\ cmd[2] = <<"-p">>
            /\ cmd[3] = pure_in.prompt
            /\ Before(cmd, pure_in.prompt, AllowFlag)
            /\ Before(cmd, pure_in.prompt, ResumeFlag)
            /\ Before(cmd, pure_in.prompt, BypassFlag)
            /\ Before(cmd, AllowFlag, ResumeFlag)
            /\ Before(cmd, ResumeFlag, BypassFlag)

\* C26 as amended: the command line is the executable, -p, the input text, the
\* configured arguments, then the allow-list flag with the comma-joined tools if
\* tools are configured, then the permission-bypass flag if configured, then the
\* resume flag with the id if the session id is a non-empty string, and nothing
\* else; the resume flag is there exactly when the session id is non-empty.
C26_CmdOrder ==
    Called("run_claude") =>
        LET cmd == pure_out[1]
            args == pure_in.agent.args
            resumes == pure_in.session_id \notin {None, ""}
        IN  /\ FlagsAsConfigured(cmd, pure_in, resumes)
            /\ cmd[2] = <<"-p">>
            /\ cmd[3] = pure_in.prompt
            /\ SubSeq(cmd, 4, 3 + Len(args)) = args
            /\ Before(cmd, pure_in.prompt, AllowFlag)
            /\ Before(cmd, AllowFlag, BypassFlag)
            /\ Before(cmd, AllowFlag, ResumeFlag)
            /\ Before(cmd, BypassFlag, ResumeFlag)
            /\ Len(cmd) = 3 + Len(args)
                          + (IF pure_in.agent.allowed_tools # <<>> THEN 2 ELSE 0)
                          + (IF pure_in.agent.dangerously_skip_permissions
                             THEN 1 ELSE 0)
                          + (IF resumes THEN 2 ELSE 0)

C26_Witness ==
    /\ Called("run_claude")
    /\ pure_in.agent.dangerously_skip_permissions
    /\ pure_in.agent.allowed_tools # <<>>
    /\ pure_in.agent.args # <<>>
    /\ pure_in.session_id = "s1"
    /\ Len(pure_out[1]) = 11

\* ------------------------------------------------- claim on the debug log
\* The log files in the file system.
LogFiles == { f \in fs : f.kind = "file" }

\* C27: with debug disabled run_claude creates no directory and no file and
\* writes nothing, whatever the process prints and however it exits; with debug
\* enabled it creates one log file, and only one, in the log directory, named
\* after the time stamp, the agent command and the caller's command label.
C27_DebugLogFrame ==
    /\ ~debug_enabled =>
          /\ fs = {}
          /\ debug_log = None
          /\ log_buf = <<>>
          /\ log_file = <<>>
    /\ debug_enabled =>
          IF rc_pc \in {"created", "spawn", "start_thread", "open_log"}
          THEN fs = {}
          ELSE /\ LogFiles = { File(<< LogDir[1], "/", "ts", "_", "claude", "_",
                                       command, ".log" >>) }
               /\ fs \ LogFiles = { Dir(LogDir) }

C27_Witness ==
    /\ debug_enabled
    /\ command = "unknown"
    /\ Ended
    /\ Cardinality(LogFiles) = 1
    /\ log_file # <<>>

\* --------------------------------------------------- claim on build_prompt
\* The text sub stands in text at position p.
Occurs(sub, text, p) ==
    /\ p + Len(sub) - 1 <= Len(text)
    /\ SubSeq(text, p, p + Len(sub) - 1) = sub

\* C28: the text build_prompt returns holds the agent instructions, then every
\* knowledge file name followed by its content, then the specification: the
\* instructions end before every knowledge entry begins and every knowledge
\* entry ends before the specification begins, an empty knowledge map included.
C28_PromptOrder ==
    Called("build_prompt") =>
        LET text == pure_out[1]
            agent == pure_in.agent_prompt
            spec == pure_in.spec_content
            knowledge == pure_in.knowledge_contents
            Positions == 1..(Len(text) + 1)
        IN  \E pa \in Positions : \E ps \in Positions :
                /\ Occurs(agent, text, pa)
                /\ Occurs(spec, text, ps)
                /\ pa + Len(agent) <= ps
                /\ \A i \in DOMAIN knowledge :
                       \E pf \in Positions : \E pc \in Positions :
                           /\ Occurs(knowledge[i].filename, text, pf)
                           /\ Occurs(knowledge[i].content, text, pc)
                           /\ pa + Len(agent) <= pf
                           /\ pf + Len(knowledge[i].filename) <= pc
                           /\ pc + Len(knowledge[i].content) <= ps

C28_Witness ==
    /\ Called("build_prompt")
    /\ pure_in.agent_prompt = <<"AGENT">>
    /\ pure_in.spec_content = <<"SPEC">>
    /\ Len(pure_in.knowledge_contents) = 2
    /\ pure_in.knowledge_contents[1].content = <<"KNOWLEDGE">>
    /\ pure_out[1][1] = "AGENT"
    /\ pure_out[1][Len(pure_out[1])] = "SPEC"

\* ---------------------------------------- claim on prompt_user_for_answer
\* The decimal numerals the user may type, by value.
Numerals == << <<"1">>, <<"2">>, <<"3">> >>

\* The answer the claim gives for a question and a typed choice: the label of
\* option k for the numeral k of an option, the typed text otherwise.
ClaimedAnswer(q, typed) ==
    IF \E k \in DOMAIN q.options : k \in DOMAIN Numerals /\ typed = Numerals[k]
    THEN << q.options[CHOOSE k \in DOMAIN q.options :
                          k \in DOMAIN Numerals /\ typed = Numerals[k]].label >>
    ELSE typed

\* C29: prompt_user_for_answer yields, question by question and in question
\* order, the label of option k when the typed choice is an integer k between 1
\* and the number of options, and the typed text when it is no integer, is out
\* of that range or the question has no options; the answers are joined with
\* "; " once every question is answered.
C29_PromptAnswers ==
    Called("prompt_user_for_answer") =>
        LET qs == pure_in.questions
            expected == [i \in DOMAIN qs |-> ClaimedAnswer(qs[i], pure_in.typed[i])]
        IN  pure_out[1] =
               IF Len(qs) = 1 THEN expected[1]
               ELSE expected[1] \o <<";", "ws">> \o expected[2]
                    \o (IF Len(qs) > 2 THEN <<";", "ws">> \o expected[3] ELSE <<>>)

C29_Witness ==
    /\ Called("prompt_user_for_answer")
    /\ Len(pure_in.questions) = 2
    /\ pure_in.questions[1].question = "Q1"
    /\ pure_in.typed[1] = <<"2">>
    /\ pure_in.questions[2].options = <<>>
    /\ pure_in.typed[2] = <<"1">>
    /\ pure_out[1] = <<"B", ";", "ws", "1">>

\* ------------------------------------------------ claim on _expand_env_vars
\* A string of the form ${NAME}, and its NAME.
IsReference(chars) ==
    /\ Len(chars) > 3
    /\ chars[1] = "$"
    /\ chars[2] = "{"
    /\ chars[Len(chars)] = "}"

ReferenceName(chars) == SubSeq(chars, 3, Len(chars) - 1)

\* The configuration data with every string ${NAME} whose variable is set
\* replaced by the variable's value, at every depth.
RECURSIVE Substituted(_, _)
Substituted(data, env) ==
    IF data.t \in {"dict", "list"}
    THEN Node(data.t,
              [i \in DOMAIN data.v |->
                  IF data.t = "dict"
                  THEN Node(data.v[i].t, << Substituted(data.v[i].v[1], env) >>)
                  ELSE Substituted(data.v[i], env)])
    ELSE IF data.t = "str" /\ IsReference(Chars(data))
            /\ ReferenceName(Chars(data)) \in env
    THEN CStr(EnvValue(ReferenceName(Chars(data))))
    ELSE data

\* C30: loading the configuration replaces every string value of the form
\* ${NAME}, at any depth of mappings and lists, by the value of the environment
\* variable NAME when it is set and leaves it as it is when it is not set.
C30_EnvSubstitution ==
    Called("_expand_env_vars") =>
        pure_out[1] = Substituted(pure_in.data, pure_in.env)

\* ------------------------------------------------- the plan that is written
\* The worker whose _run_agent has called write_plan_output.
Writers ==
    { w \in DOMAIN workers :
         /\ workers[w].pc = "done"
         /\ workers[w].turn_exit = <<0>>
         /\ workers[w].questions_found = <<>>
         /\ Truthy(workers[w].final_result) }

\* C31: write_plan_output is called at most once in a conversation, in either
\* front end; once it is called the conversation has completed or is about to
\* show completion, the text written is the result text the conversation
\* completes with (that of its last result event), the conversation has not
\* failed and does not fail, and no question is found, posted, shown or asked.
C31_PlanOutputOnlyOnCompletion ==
    /\ [](Len(plan_output) <= 1)
    /\ [](plan_output # <<>> =>
             /\ ~Fatal
             /\ plan_output[1] = LastResultText(conv_lines)
             /\ frontend = "plan" =>
                   /\ p_pc = "done"
                   /\ questions_found = <<>>
                   /\ plan_output[1] = final_result
             /\ frontend = "tui" =>
                   /\ status = "done" \/ Posted("AgentComplete")
                   /\ RunningWorkers = {}
                   /\ pending_questions = <<>>
                   /\ ~panel
                   /\ ~Posted("AgentQuestion")
                   /\ \E w \in Writers :
                         /\ w = Len(workers)
                         /\ plan_output[1] = workers[w].final_result)
    /\ [][plan_output' # plan_output =>
             /\ plan_output = <<>>
             /\ ~Fatal
             /\ frontend = "plan" => p_pc = "events" /\ p_pc' = "done"
             /\ frontend = "tui" => pending_questions = <<>> /\ ~panel
         ]_vars

C31_Witness ==
    /\ frontend = "tui"
    /\ Len(workers) = 2
    /\ plan_output = << <<"done">> >>
    /\ status = "done"
    /\ result_plan_dir

\* ------------------------------------------------ the end of an invocation
\* C32: when run_claude has ended, however it ended (the stream exhausted with
\* exit code 0, a non-zero exit code, an exception of its own, or the consumer
\* leaving the loop before the stream is exhausted), the debug log it opened is
\* closed with nothing left in its buffer; no state has the invocation ended and
\* the handle open.
C32_LogClosedAtEnd ==
    Ended =>
        /\ debug_log # "open"
        /\ debug_enabled => debug_log = "closed" /\ log_buf = <<>>
        /\ ~debug_enabled => debug_log = None

C32_Witness ==
    /\ rc_pc = "raised"
    /\ error = GeneratorExit
    /\ debug_log = "closed"
    /\ process = "running"
    /\ ~stdout_closed
    /\ Len(received) = 1
    /\ log_file # <<>>

====
